---- MODULE Spec2Model ----
(***************************************************************************)
(* A model of package valve (ardnew/teev): Meter, a byte-counting proxy    *)
(* over an optional io.Reader and an optional io.Writer, and Limit, which  *)
(* embeds a *Meter and enforces one cumulative byte ceiling per direction. *)
(*                                                                         *)
(* One object (a Meter or a Limit) is constructed in Init; every action is *)
(* one whole method call on it.  The wrapped endpoints, the sources and    *)
(* the sinks are the environment: what they answer in a call is an input   *)
(* of that call.  The variable last records the latest call: its           *)
(* arguments, what was handed to the endpoint, and what was returned.      *)
(***************************************************************************)
EXTENDS Integers, Sequences, FiniteSets, TLC

\* ------------------------------------------------------------------ bounds

\* Buffers and sources hold 0..MaxLen bytes.
MaxLen == 2

\* Ceilings are Unlimited or 0..MaxCeil.
MaxCeil == 2

\* Counters stay in 0..MaxCount: a call is taken only when the bytes it
\* asks for cannot carry its counter past MaxCount.
MaxCount == 3

\* ------------------------------------------------------- program constants

\* const Unlimited = -1
Unlimited == -1

\* The size of the buffer io.Copy reads into: size := 32 * 1024
CopyBuf == 32768

Min(a, b) == IF a < b THEN a ELSE b

\* A byte slice of the given length; a byte is named by its position in the
\* caller's buffer, so that a sub-slice tells which bytes it holds.
Buf(len) == [i \in 1..len |-> i]

\* Faulty variant of SliceTo: the last k bytes, p[len(p)-k:].
SliceTail(p, k) == SubSeq(p, Len(p) - k + 1, Len(p))

\* p[:k]
SliceTo(p, k) == SubSeq(p, 1, k)

\* ------------------------------------------------------------------ errors

Nil == [kind |-> "nil"]
ErrClosedPipe == [kind |-> "io.ErrClosedPipe"]
EOF == [kind |-> "io.EOF"]
ErrShortWrite == [kind |-> "io.ErrShortWrite"]
\* An error of the wrapped endpoint's own (a transport fault).
ErrEndpoint == [kind |-> "endpoint"]
\* Two errors a closer's Close may return.
ErrCloseA == [kind |-> "close", id |-> "A"]
ErrCloseB == [kind |-> "close", id |-> "B"]

\* The values of the bitmask IO, each named as IO.String() names it, and
\* the bits each has set.
IO_Read == "read"
IO_Write == "write"
IO_Close == "close"
IO_ReadWrite == "read/write"
IO_NOP == "nop"

IO_Bits(o) ==
    CASE o = IO_Read -> {"Read"}
      [] o = IO_Write -> {"Write"}
      [] o = IO_Close -> {"Close"}
      [] o = IO_ReadWrite -> {"Read", "Write"}
      [] o = IO_NOP -> {}

\* o & bit != 0
IO_Has(o, bit) == IO_Bits(o) \cap IO_Bits(bit) # {}

\* The readings of the clock (time.Now()); Epoch is the reading in a call
\* that is not given another one.
Times == {"t0", "t1"}
Epoch == "t0"

\* internal.Error{when: when, cause: cause, wrap: wrap}
MakeErrorAt(cause, when) ==
    [kind |-> "internal.Error", when |-> when, cause |-> cause, wrap |-> <<>>]

\* internal.MakeError(cause): the cause in an internal.Error made now.
MakeError(cause) == MakeErrorAt(cause, Epoch)

\* func (e Error) Cause() error (of an error that is no internal.Error:
\* the error itself)
Cause(e) == IF e.kind = "internal.Error" THEN e.cause ELSE e

\* The Limit modelled, another Limit, and the nil *Limit.
ThisLimit == "l"
OtherLimit == "other"
NilLimit == "nil"

\* LimitError{Limit: l, op: op, Requested: req, Accepted: n}
LimitError(op, req, n) ==
    [kind |-> "LimitError", Limit |-> ThisLimit, op |-> op,
     Requested |-> req, Accepted |-> n]

\* LimitError{}
LimitErrorZero ==
    [kind |-> "LimitError", Limit |-> NilLimit, op |-> IO_NOP,
     Requested |-> 0, Accepted |-> 0]

MakeReadLimitError(req, n) == MakeError(LimitError(IO_Read, req, n))

MakeWriteLimitError(req, n) == MakeError(LimitError(IO_Write, req, n))

\* internal.MakeInvalidOperationError().Error()
InvalidOperationText == [text |-> "invalid operation"]

\* fmt.Sprintf("short %s: %d of %d bytes (cumulative %s limit = %d bytes)",
\*             e.op, e.Accepted, e.Requested, e.op, eMax)
ShortText(e, eMax) ==
    [text |-> "short", op |-> e.op, Accepted |-> e.Accepted,
     Requested |-> e.Requested, limit |-> eMax]

\* Faulty variant of LimitError_Error: the write bit is tested before the read
\* bit.
LimitError_Error_WriteFirst(e, rm, wm) ==
    IF IO_Has(e.op, IO_Write)
    THEN IF e.Limit = NilLimit THEN [text |-> "panic"] ELSE ShortText(e, wm)
    ELSE IF IO_Has(e.op, IO_Read)
    THEN IF e.Limit = NilLimit THEN [text |-> "panic"] ELSE ShortText(e, rm)
    ELSE InvalidOperationText

\* func (e LimitError) Error() string; rm and wm are what e.MaxCountRead()
\* and e.MaxCountWrite() load from the owner when the error is rendered (a
\* nil owner: a nil dereference).
LimitError_Error(e, rm, wm) ==
    IF IO_Has(e.op, IO_Read)
    THEN IF e.Limit = NilLimit THEN [text |-> "panic"] ELSE ShortText(e, rm)
    ELSE IF IO_Has(e.op, IO_Write)
    THEN IF e.Limit = NilLimit THEN [text |-> "panic"] ELSE ShortText(e, wm)
    ELSE InvalidOperationText

IsLimitError(e) == e.kind = "internal.Error" /\ e.cause.kind = "LimitError"

\* errors.Join(a, b): nil when both are nil, else the non-nil ones joined.
ErrorsJoin(a, b) ==
    LET nn == SelectSeq(<<a, b>>, LAMBDA e : e # Nil)
    IN  IF nn = <<>> THEN Nil ELSE [kind |-> "join", errs |-> nn]

\* func (e Error) Wrap(err ...error) Error
Error_Wrap(e, errs) == [e EXCEPT !.wrap = SelectSeq(errs, LAMBDA x : x # Nil)]

RECURSIVE ErrorsIs(_, _)
RECURSIVE Error_Is_WithTime(_, _)
RECURSIVE Error_Is(_, _)

\* Faulty variant of Error_Is: two internal.Errors are equivalent only when made
\* at the same time.
Error_Is_WithTime(e, err) ==
    LET cmp == IF err.kind = "internal.Error" THEN err.cause ELSE err
    IN  /\ err.kind = "internal.Error" => e.when = err.when
        /\ ErrorsIs(e.cause, cmp)

\* func (e Error) Is(err error) bool
Error_Is(e, err) ==
    LET cmp == IF err.kind = "internal.Error" THEN err.cause ELSE err
    IN  ErrorsIs(e.cause, cmp)

\* errors.Is(err, target): err equals target (tested when target is of a
\* comparable type, which an internal.Error, holding a slice, is not), or
\* err's Is method accepts target, or an error that err wraps or joins
\* matches target.
ErrorsIs(err, target) ==
    IF err = Nil \/ target = Nil THEN err = target
    ELSE IF target.kind # "internal.Error" /\ err = target THEN TRUE
    ELSE IF err.kind = "internal.Error"
         THEN \/ Error_Is(err, target)
              \/ \E i \in 1..Len(err.wrap) : ErrorsIs(err.wrap[i], target)
    ELSE IF err.kind = "join"
         THEN \E i \in 1..Len(err.errs) : ErrorsIs(err.errs[i], target)
         ELSE FALSE

\* --------------------------------------------------------------- endpoints

NoEndpoint == "nil"
Closers == {"closerA", "closerB"}
Endpoints == {"plain"} \cup Closers

\* v.(io.Closer)
IsCloser(e) == e \in Closers

\* What an endpoint answers to one Read(p) or Write(p): it moves at most
\* ep.k bytes, never more than len(p), and reports ep.err.
EndpointIO(p, ep) == [n |-> Min(Len(p), ep.k), err |-> ep.err]

EndpointAnswers ==
    {[k |-> k, err |-> e] : k \in 0..MaxLen, e \in {Nil, ErrEndpoint}}

\* A stream read by a drain: avail bytes, then the error end for good.
Sources == {[avail |-> a, end |-> e] : a \in 0..MaxLen, e \in {EOF, ErrEndpoint}}

\* The destination of a drain: it accepts room bytes in all; a Write that
\* does not fit is short and reports err (Nil: a short write with no error).
Sinks == {[room |-> r, err |-> e] : r \in 0..MaxLen, e \in {Nil, ErrEndpoint}}

\* ------------------------------------------------------------ io.Copy, CopyN

\* The copy loop of io.Copy(sink, src) with a buffer of size bytes; when
\* limited, src is inside an io.LimitedReader whose N is lim.  Each turn
\* reads up to size bytes (the LimitedReader: up to N, and EOF at N <= 0)
\* and writes what it read; a write error or a short write ends the loop,
\* and so does a read error, of which EOF is not reported.
\* Result: n bytes written, err, pulled bytes read from src.
RECURSIVE CopyLoop(_, _, _, _, _, _, _)
CopyLoop(src, sink, limited, lim, size, written, pulled) ==
    LET stop == limited /\ lim <= 0
        want == IF limited THEN Min(size, lim) ELSE size
        nr == IF stop THEN 0 ELSE Min(want, src.avail)
        er == IF stop THEN EOF
              ELSE IF src.avail = 0 THEN src.end ELSE Nil
        nw == Min(nr, sink.room)
        ew == IF nw < nr THEN sink.err ELSE Nil
    IN  IF nr > 0 /\ ew # Nil
        THEN [n |-> written + nw, err |-> ew, pulled |-> pulled + nr]
        ELSE IF nr > 0 /\ nr # nw
        THEN [n |-> written + nw, err |-> ErrShortWrite, pulled |-> pulled + nr]
        ELSE IF er # Nil
        THEN [n |-> written + nw, err |-> IF er = EOF THEN Nil ELSE er,
              pulled |-> pulled + nr]
        ELSE CopyLoop([src EXCEPT !.avail = @ - nr],
                      [sink EXCEPT !.room = @ - nw],
                      limited, lim - nr, size, written + nw, pulled + nr)

\* io.Copy(sink, src)
IoCopy(src, sink) == CopyLoop(src, sink, FALSE, 0, CopyBuf, 0, 0)

\* Faulty variant of IoCopyN: the LimitedReader is given n - 1 bytes.
IoCopyN_OneShort(src, sink, n) ==
    LET size == IF n < CopyBuf THEN (IF n < 1 THEN 1 ELSE n) ELSE CopyBuf
        r == CopyLoop(src, sink, TRUE, n - 1, size, 0, 0)
    IN  IF r.n = n THEN [r EXCEPT !.err = Nil]
        ELSE IF r.n < n /\ r.err = Nil THEN [r EXCEPT !.err = EOF]
        ELSE r

\* Faulty variant of IoCopyN: a source that ends early is not reported.
IoCopyN_NoEOF(src, sink, n) ==
    LET size == IF n < CopyBuf THEN (IF n < 1 THEN 1 ELSE n) ELSE CopyBuf
        r == CopyLoop(src, sink, TRUE, n, size, 0, 0)
    IN  IF r.n = n THEN [r EXCEPT !.err = Nil]
        ELSE r

\* io.CopyN(sink, src, n): Copy from LimitReader(src, n), whose buffer is no
\* larger than n (and at least 1); all n bytes written is success, fewer
\* with no error is EOF.
IoCopyN(src, sink, n) ==
    LET size == IF n < CopyBuf THEN (IF n < 1 THEN 1 ELSE n) ELSE CopyBuf
        r == CopyLoop(src, sink, TRUE, n, size, 0, 0)
    IN  IF r.n = n THEN [r EXCEPT !.err = Nil]
        ELSE IF r.n < n /\ r.err = Nil THEN [r EXCEPT !.err = EOF]
        ELSE r

\* io.LimitReader(src, n) as a stream: the first n bytes of src and then
\* io.EOF, or all of src and its own end when it holds fewer than n.
LimitReader(src, n) ==
    [avail |-> Min(src.avail, IF n > 0 THEN n ELSE 0),
     end |-> IF src.avail >= n THEN EOF ELSE src.end]

\* --------------------------------------------------- the outcome of a call

\* What a transfer call did: the n and err it returned; whether it reached
\* the endpoint (called) and with which slice (handed, Read and Write);
\* the count and error the underlying transfer reported (epN, epErr); the
\* bytes it took from the source of a drain (pulled); and the amount it
\* added to its counter (add).
Returned(n, err) ==
    [n |-> n, err |-> err, called |-> FALSE, handed |-> <<>>,
     epN |-> 0, epErr |-> Nil, pulled |-> 0, add |-> 0]

Transferred(n, err, handed, r, add) ==
    [n |-> n, err |-> err, called |-> TRUE, handed |-> handed,
     epN |-> r.n, epErr |-> r.err, pulled |-> 0, add |-> add]

Drained(n, err, r, add) ==
    [n |-> n, err |-> err, called |-> TRUE, handed |-> <<>>,
     epN |-> r.n, epErr |-> r.err, pulled |-> r.pulled, add |-> add]

\* -------------------------------------------------------------------- Meter

\* func (m *Meter) CanRead() bool
Meter_CanRead(R) == R # NoEndpoint

\* func (m *Meter) CanWrite() bool
Meter_CanWrite(W) == W # NoEndpoint

\* func (m *Meter) Read(p []byte) (n int, err error)
Meter_Read(R, p, ep) ==
    IF ~Meter_CanRead(R) THEN Returned(0, ErrClosedPipe)
    ELSE LET r == EndpointIO(p, ep)
         IN  Transferred(r.n, r.err, p, r, r.n)

\* Faulty variant of Meter_Write: the counter is advanced by len(p).
Meter_Write_CountsRequested(W, p, ep) ==
    IF ~Meter_CanWrite(W) THEN Returned(0, ErrClosedPipe)
    ELSE LET r == EndpointIO(p, ep)
         IN  Transferred(r.n, r.err, p, r, Len(p))

\* func (m *Meter) Write(p []byte) (n int, err error)
Meter_Write(W, p, ep) ==
    IF ~Meter_CanWrite(W) THEN Returned(0, ErrClosedPipe)
    ELSE LET r == EndpointIO(p, ep)
         IN  Transferred(r.n, r.err, p, r, r.n)

\* func (m *Meter) ReadFrom(r io.Reader) (n int64, err error)
\* src is r; sink is what m.Writer accepts in this call.
Meter_ReadFrom(W, src, sink) ==
    IF ~Meter_CanWrite(W) THEN Returned(0, ErrClosedPipe)
    ELSE LET r == IoCopy(src, sink)
         IN  Drained(r.n, r.err, r, r.n)

\* func (m *Meter) WriteTo(w io.Writer) (n int64, err error)
\* src is what m.Reader holds in this call; sink is w.
Meter_WriteTo(R, src, sink) ==
    IF ~Meter_CanRead(R) THEN Returned(0, ErrClosedPipe)
    ELSE LET r == IoCopy(src, sink)
         IN  Drained(r.n, r.err, r, r.n)

\* Faulty variant of Meter_close: the loop ends at the first Close that fails.
RECURSIVE Meter_close_StopAtError(_, _, _, _)
Meter_close_StopAtError(v, answers, err, closed) ==
    IF v = <<>> \/ err # Nil THEN [err |-> err, closed |-> closed]
    ELSE IF IsCloser(Head(v))
         THEN Meter_close_StopAtError(Tail(v), Tail(answers),
                                      ErrorsJoin(err, Head(answers)),
                                      Append(closed, Head(v)))
         ELSE Meter_close_StopAtError(Tail(v), Tail(answers), err, closed)

\* func (m *Meter) close(v ...interface{}) (err error), over a list of
\* bindings; answers[i] is what the i-th binding's Close returns when it is
\* a closer.  Result: the joined error and the closers invoked, in order.
RECURSIVE Meter_close(_, _, _, _)
Meter_close(v, answers, err, closed) ==
    IF v = <<>> THEN [err |-> err, closed |-> closed]
    ELSE IF IsCloser(Head(v))
         THEN Meter_close(Tail(v), Tail(answers),
                          ErrorsJoin(err, Head(answers)),
                          Append(closed, Head(v)))
         ELSE Meter_close(Tail(v), Tail(answers), err, closed)

\* func (m *Meter) Close() error
Meter_Close(R, W, answers) == Meter_close(<<R, W>>, answers, Nil, <<>>)

\* func (m *Meter) CountRead() int64: rCount.Load()
Meter_CountRead(count) == count

\* func (m *Meter) CountWrite() int64: wCount.Load()
Meter_CountWrite(count) == count

\* Faulty variant of Meter_AddCountRead: rCount.Store(r).
Meter_AddCountRead_Store(count, r) == r

\* func (m *Meter) AddCountRead(r int64) int64: rCount.Add(r)
Meter_AddCountRead(count, r) == count + r

\* func (m *Meter) AddCountWrite(w int64) int64: wCount.Add(w)
Meter_AddCountWrite(count, w) == count + w

\* -------------------------------------------------------------------- Limit

\* Faulty variant of Limit_CanRead: only the Meter is looked at.
Limit_CanRead_MeterOnly(hasM, R) == hasM

\* func (l *Limit) CanRead() bool
Limit_CanRead(hasM, R) == hasM /\ Meter_CanRead(R)

\* func (l *Limit) CanWrite() bool
Limit_CanWrite(hasM, W) == hasM /\ Meter_CanWrite(W)

\* func (l *Limit) RemainingCountRead() int64
Limit_RemainingCountRead(max, count) == max - count

\* func (l *Limit) RemainingCountWrite() int64
Limit_RemainingCountWrite(max, count) == max - count

\* func (l *Limit) RemainingCount() (r, w int64)
Limit_RemainingCount(rm, rc, wm, wc) == <<rm - rc, wm - wc>>

\* func (l *Limit) MaxCountRead() int64: rMax.Load()
Limit_MaxCountRead(max) == max

\* func (l *Limit) MaxCountWrite() int64: wMax.Load()
Limit_MaxCountWrite(max) == max

\* Faulty variant of Limit_Read: the exhausted case is count > max.
Limit_Read_OffByOne(hasM, R, count, max, p, ep) ==
    IF ~Limit_CanRead(hasM, R) THEN Returned(0, ErrClosedPipe)
    ELSE LET req == Len(p)
             rem == Limit_RemainingCountRead(max, count)
         IN  IF max = Unlimited THEN Meter_Read(R, p, ep)
             ELSE IF count > max
             THEN Returned(0, MakeReadLimitError(req, 0))
             ELSE LET q == IF req > rem THEN SliceTo(p, rem) ELSE p
                      e == IF req > rem THEN MakeReadLimitError(req, rem)
                           ELSE Nil
                      r == EndpointIO(q, ep)
                  IN  Transferred(r.n, IF r.err = Nil THEN e ELSE r.err,
                                  q, r, r.n)

\* Faulty variant of Limit_Read: the pending LimitError wins over the endpoint's
\* error.
Limit_Read_LimitErrorWins(hasM, R, count, max, p, ep) ==
    IF ~Limit_CanRead(hasM, R) THEN Returned(0, ErrClosedPipe)
    ELSE LET req == Len(p)
             rem == Limit_RemainingCountRead(max, count)
         IN  IF max = Unlimited THEN Meter_Read(R, p, ep)
             ELSE IF count >= max
             THEN Returned(0, MakeReadLimitError(req, 0))
             ELSE LET q == IF req > rem THEN SliceTo(p, rem) ELSE p
                      e == IF req > rem THEN MakeReadLimitError(req, rem)
                           ELSE Nil
                      r == EndpointIO(q, ep)
                  IN  Transferred(r.n, IF e # Nil THEN e ELSE r.err,
                                  q, r, r.n)

\* Faulty variant of Limit_Read: a short read is reported as a LimitError.
Limit_Read_ShortIsLimit(hasM, R, count, max, p, ep) ==
    IF ~Limit_CanRead(hasM, R) THEN Returned(0, ErrClosedPipe)
    ELSE LET req == Len(p)
             rem == Limit_RemainingCountRead(max, count)
         IN  IF max = Unlimited THEN Meter_Read(R, p, ep)
             ELSE IF count >= max
             THEN Returned(0, MakeReadLimitError(req, 0))
             ELSE LET q == IF req > rem THEN SliceTo(p, rem) ELSE p
                      r == EndpointIO(q, ep)
                      e == IF r.n < req THEN MakeReadLimitError(req, r.n)
                           ELSE Nil
                  IN  Transferred(r.n, IF r.err = Nil THEN e ELSE r.err,
                                  q, r, r.n)

\* func (l *Limit) Read(p []byte) (n int, err error)
\* count and max are the read counter and the read ceiling at the call.
Limit_Read(hasM, R, count, max, p, ep) ==
    IF ~Limit_CanRead(hasM, R) THEN Returned(0, ErrClosedPipe)
    ELSE LET req == Len(p)
             rem == Limit_RemainingCountRead(max, count)
         IN  IF max = Unlimited THEN Meter_Read(R, p, ep)
             ELSE IF count >= max
             THEN Returned(0, MakeReadLimitError(req, 0))
             ELSE LET q == IF req > rem THEN SliceTo(p, rem) ELSE p
                      e == IF req > rem THEN MakeReadLimitError(req, rem)
                           ELSE Nil
                      r == EndpointIO(q, ep)
                  IN  Transferred(r.n, IF r.err = Nil THEN e ELSE r.err,
                                  q, r, r.n)

\* Faulty variant of Limit_Write: a truncated request leaves no pending LimitError.
Limit_Write_SilentCut(hasM, W, count, max, p, ep) ==
    IF ~Limit_CanWrite(hasM, W) THEN Returned(0, ErrClosedPipe)
    ELSE LET req == Len(p)
             rem == Limit_RemainingCountWrite(max, count)
         IN  IF max = Unlimited THEN Meter_Write(W, p, ep)
             ELSE IF count >= max
             THEN Returned(0, MakeWriteLimitError(req, 0))
             ELSE LET q == IF req > rem THEN SliceTo(p, rem) ELSE p
                      r == EndpointIO(q, ep)
                  IN  Transferred(r.n, r.err, q, r, r.n)

\* Faulty variant of Limit_Write: the exhausted case is count > max.
Limit_Write_OffByOne(hasM, W, count, max, p, ep) ==
    IF ~Limit_CanWrite(hasM, W) THEN Returned(0, ErrClosedPipe)
    ELSE LET req == Len(p)
             rem == Limit_RemainingCountWrite(max, count)
         IN  IF max = Unlimited THEN Meter_Write(W, p, ep)
             ELSE IF count > max
             THEN Returned(0, MakeWriteLimitError(req, 0))
             ELSE LET q == IF req > rem THEN SliceTo(p, rem) ELSE p
                      e == IF req > rem THEN MakeWriteLimitError(req, rem)
                           ELSE Nil
                      r == EndpointIO(q, ep)
                  IN  Transferred(r.n, IF r.err = Nil THEN e ELSE r.err,
                                  q, r, r.n)

\* func (l *Limit) Write(p []byte) (n int, err error)
\* count and max are the write counter and the write ceiling at the call.
Limit_Write(hasM, W, count, max, p, ep) ==
    IF ~Limit_CanWrite(hasM, W) THEN Returned(0, ErrClosedPipe)
    ELSE LET req == Len(p)
             rem == Limit_RemainingCountWrite(max, count)
         IN  IF max = Unlimited THEN Meter_Write(W, p, ep)
             ELSE IF count >= max
             THEN Returned(0, MakeWriteLimitError(req, 0))
             ELSE LET q == IF req > rem THEN SliceTo(p, rem) ELSE p
                      e == IF req > rem THEN MakeWriteLimitError(req, rem)
                           ELSE Nil
                      r == EndpointIO(q, ep)
                  IN  Transferred(r.n, IF r.err = Nil THEN e ELSE r.err,
                                  q, r, r.n)

\* Faulty variant of Limit_ReadFrom: the drain is io.Copy, not io.CopyN.
Limit_ReadFrom_Unbounded(hasM, W, count, max, src, sink) ==
    IF ~Limit_CanWrite(hasM, W) THEN Returned(0, ErrClosedPipe)
    ELSE LET rem == Limit_RemainingCountWrite(max, count)
         IN  IF max = Unlimited THEN Meter_ReadFrom(W, src, sink)
             ELSE IF rem <= 0
             THEN Returned(0, MakeWriteLimitError(rem, 0))
             ELSE LET r == IoCopy(src, sink)
                  IN  Drained(r.n, r.err, r, r.n)

\* Faulty variant of Limit_ReadFrom: the drain is refused only when the
\* remaining capacity is below 0.
Limit_ReadFrom_ZeroPasses(hasM, W, count, max, src, sink) ==
    IF ~Limit_CanWrite(hasM, W) THEN Returned(0, ErrClosedPipe)
    ELSE LET rem == Limit_RemainingCountWrite(max, count)
         IN  IF max = Unlimited THEN Meter_ReadFrom(W, src, sink)
             ELSE IF rem < 0
             THEN Returned(0, MakeWriteLimitError(rem, 0))
             ELSE LET r == IoCopyN(src, sink, rem)
                  IN  Drained(r.n, r.err, r, r.n)

\* func (l *Limit) ReadFrom(r io.Reader) (n int64, err error)
\* count and max are the write counter and the write ceiling at the call.
Limit_ReadFrom(hasM, W, count, max, src, sink) ==
    IF ~Limit_CanWrite(hasM, W) THEN Returned(0, ErrClosedPipe)
    ELSE LET rem == Limit_RemainingCountWrite(max, count)
         IN  IF max = Unlimited THEN Meter_ReadFrom(W, src, sink)
             ELSE IF rem <= 0
             THEN Returned(0, MakeWriteLimitError(rem, 0))
             ELSE LET r == IoCopyN(src, sink, rem)
                  IN  Drained(r.n, r.err, r, r.n)

\* Faulty variant of Limit_WriteTo: the remaining capacity is tested before the
\* ceiling is compared with Unlimited.
Limit_WriteTo_CeilingFirst(hasM, R, count, max, src, sink) ==
    IF ~Limit_CanRead(hasM, R) THEN Returned(0, ErrClosedPipe)
    ELSE LET rem == Limit_RemainingCountRead(max, count)
         IN  IF rem <= 0
             THEN Returned(0, MakeReadLimitError(rem, 0))
             ELSE IF max = Unlimited THEN Meter_WriteTo(R, src, sink)
             ELSE LET r == IoCopyN(src, sink, rem)
                  IN  Drained(r.n, r.err, r, r.n)

\* Faulty variant of Limit_WriteTo: the drain is io.Copy, not io.CopyN.
Limit_WriteTo_Unbounded(hasM, R, count, max, src, sink) ==
    IF ~Limit_CanRead(hasM, R) THEN Returned(0, ErrClosedPipe)
    ELSE LET rem == Limit_RemainingCountRead(max, count)
         IN  IF max = Unlimited THEN Meter_WriteTo(R, src, sink)
             ELSE IF rem <= 0
             THEN Returned(0, MakeReadLimitError(rem, 0))
             ELSE LET r == IoCopy(src, sink)
                  IN  Drained(r.n, r.err, r, r.n)

\* func (l *Limit) WriteTo(w io.Writer) (n int64, err error)
\* count and max are the read counter and the read ceiling at the call.
Limit_WriteTo(hasM, R, count, max, src, sink) ==
    IF ~Limit_CanRead(hasM, R) THEN Returned(0, ErrClosedPipe)
    ELSE LET rem == Limit_RemainingCountRead(max, count)
         IN  IF max = Unlimited THEN Meter_WriteTo(R, src, sink)
             ELSE IF rem <= 0
             THEN Returned(0, MakeReadLimitError(rem, 0))
             ELSE LET r == IoCopyN(src, sink, rem)
                  IN  Drained(r.n, r.err, r, r.n)

\* func (l *Limit) Close() error
Limit_Close(hasM, R, W, answers) ==
    IF hasM THEN Meter_Close(R, W, answers)
    ELSE [err |-> Nil, closed |-> <<>>]

\* io.Copy(m, m) on a Meter: m.WriteTo(m), whose io.Copy(m, m.Reader) is
\* m.ReadFrom(m.Reader), since a Meter is an io.ReaderFrom.  Result: the
\* outcome of the WriteTo (epN, epErr: what the nested ReadFrom returned)
\* and wadd, the amount the nested ReadFrom added to the write counter.
Meter_CopySelf(R, W, src, sink) ==
    IF ~Meter_CanRead(R) THEN [out |-> Returned(0, ErrClosedPipe), wadd |-> 0]
    ELSE LET in == Meter_ReadFrom(W, src, sink)
         IN  [out |-> Drained(in.n, in.err, in, in.n), wadd |-> in.add]

\* Faulty variant of Limit_CopySelf: the error of the nested ReadFrom is returned
\* as it is.
Limit_CopySelf_InnerError(hasM, R, W, rc, rm, wc, wm, src, sink) ==
    IF ~Limit_CanRead(hasM, R)
    THEN [out |-> Returned(0, ErrClosedPipe), wadd |-> 0]
    ELSE LET rem == Limit_RemainingCountRead(rm, rc)
         IN  IF rm = Unlimited
             THEN LET in == Limit_ReadFrom(hasM, W, wc, wm, src, sink)
                  IN  [out |-> Drained(in.n, in.err, in, in.n), wadd |-> in.add]
             ELSE IF rem <= 0
             THEN [out |-> Returned(0, MakeReadLimitError(rem, 0)), wadd |-> 0]
             ELSE LET in == Limit_ReadFrom(hasM, W, wc, wm,
                                           LimitReader(src, rem), sink)
                  IN  [out |-> Drained(in.n, in.err, in, in.n), wadd |-> in.add]

\* io.Copy(l, l) on a Limit: l.WriteTo(l).  With the read ceiling Unlimited
\* it is Meter.WriteTo(l), whose io.Copy(l, l.Reader) is l.ReadFrom(l.Reader);
\* else, with capacity left, io.CopyN(l, l.Reader, rem), whose
\* io.Copy(l, LimitReader(l.Reader, rem)) is l.ReadFrom of that reader, and
\* which returns nil when rem bytes were written and io.EOF when fewer were
\* and the copy reported no error.  rc, rm, wc, wm: the counters and the
\* ceilings at the call.
Limit_CopySelf(hasM, R, W, rc, rm, wc, wm, src, sink) ==
    IF ~Limit_CanRead(hasM, R)
    THEN [out |-> Returned(0, ErrClosedPipe), wadd |-> 0]
    ELSE LET rem == Limit_RemainingCountRead(rm, rc)
         IN  IF rm = Unlimited
             THEN LET in == Limit_ReadFrom(hasM, W, wc, wm, src, sink)
                  IN  [out |-> Drained(in.n, in.err, in, in.n), wadd |-> in.add]
             ELSE IF rem <= 0
             THEN [out |-> Returned(0, MakeReadLimitError(rem, 0)), wadd |-> 0]
             ELSE LET in == Limit_ReadFrom(hasM, W, wc, wm,
                                           LimitReader(src, rem), sink)
                      err == IF in.n = rem THEN Nil
                             ELSE IF in.n < rem /\ in.err = Nil THEN EOF
                             ELSE in.err
                  IN  [out |-> Drained(in.n, err, in, in.n), wadd |-> in.add]

\* -------------------------------------------------------------------- state

VARIABLES
    kind,       \* "Meter" or "Limit": the type of the object
    hasMeter,   \* Limit.Meter != nil (TRUE for a Meter)
    Reader,     \* Meter.Reader: NoEndpoint or an endpoint
    Writer,     \* Meter.Writer: NoEndpoint or an endpoint
    rCount,     \* Meter.rCount
    wCount,     \* Meter.wCount
    rMax,       \* Limit.rMax (a Meter has none: Unlimited)
    wMax,       \* Limit.wMax (a Meter has none: Unlimited)
    last,       \* the latest call and what it returned
    calls       \* the calls of concurrent callers, each with its position

vars ==
    <<kind, hasMeter, Reader, Writer, rCount, wCount, rMax, wMax, last, calls>>

bindings == <<kind, hasMeter, Reader, Writer>>

CountVals == 0..MaxCount

MaxVals == {Unlimited} \cup 0..MaxCeil

\* The (Reader, Writer) pairs a Limit is constructed with: none
\* (Limit{Meter: &Meter{}}), a reader only (NewReadLimit), a writer only
\* (NewWriteLimit), one object as both ends (NewReadWriteLimit).
LimitBindings ==
    { <<NoEndpoint, NoEndpoint>>, <<"plain", NoEndpoint>>,
      <<NoEndpoint, "closerB">>, <<"closerA", "closerA">> }

\* The pairs a Meter is constructed with: those, and two objects (NewMeter).
MeterBindings == LimitBindings \cup { <<"closerA", "closerB">> }

\* The pairs the combined setters SetCount(r, w) and SetMaxCount(r, w) are
\* called with.
CountPairs == {c \in CountVals \X CountVals : c[1] + c[2] = MaxCount}

MaxPairs == {m \in MaxVals \X MaxVals : m[1] + m[2] = MaxCeil - 1}

\* NewMeter(r, w) (NewReadMeter, NewWriteMeter and NewReadWriteMeter are
\* NewMeter with one end nil or both ends the same object; Meter{} has none).
NewMeter(r, w) ==
    /\ kind = "Meter"
    /\ hasMeter = TRUE
    /\ Reader = r
    /\ Writer = w
    /\ rCount = 0
    /\ wCount = 0
    /\ rMax = Unlimited
    /\ wMax = Unlimited

\* NewLimit(r, rMax, w, wMax) (and NewReadLimit, NewWriteLimit,
\* NewReadWriteLimit; Limit{Meter: &Meter{}} has no ends).
NewLimit(r, rm, w, wm) ==
    /\ kind = "Limit"
    /\ hasMeter = TRUE
    /\ Reader = r
    /\ Writer = w
    /\ rCount = 0
    /\ wCount = 0
    /\ rMax = rm
    /\ wMax = wm

\* NewReadMeter(r): &Meter{Reader: r}
NewReadMeter(r) == NewMeter(r, NoEndpoint)

\* NewWriteMeter(w): &Meter{Writer: w}
NewWriteMeter(w) == NewMeter(NoEndpoint, w)

\* NewReadWriteMeter(rw): &Meter{Reader: rw, Writer: rw}
NewReadWriteMeter(rw) == NewMeter(rw, rw)

\* NewReadLimit(r, rMax): the write ceiling keeps its zero value.
NewReadLimit(r, rm) == NewLimit(r, rm, NoEndpoint, 0)

\* NewWriteLimit(w, wMax): the read ceiling keeps its zero value.
NewWriteLimit(w, wm) == NewLimit(NoEndpoint, 0, w, wm)

\* NewReadWriteLimit(rw, rMax, wMax)
NewReadWriteLimit(rw, rm, wm) == NewLimit(rw, rm, rw, wm)

\* Limit{}: no Meter, both ceilings 0.
ZeroLimit ==
    /\ kind = "Limit"
    /\ hasMeter = FALSE
    /\ Reader = NoEndpoint
    /\ Writer = NoEndpoint
    /\ rCount = 0
    /\ wCount = 0
    /\ rMax = 0
    /\ wMax = 0

\* The callers that use one object concurrently.
Callers == {"c1", "c2"}

\* A caller that has made no call.
Idle ==
    [pc |-> "idle", op |-> "none", req |-> 0, ep |-> [k |-> 0, err |-> Nil],
     src |-> [avail |-> 0, end |-> EOF], sink |-> [room |-> 0, err |-> Nil],
     rem |-> 0, p |-> <<>>, e |-> Nil, n |-> 0, err |-> Nil]

\* The object as its construction leaves it.
Constructed ==
    \/ \E b \in MeterBindings : NewMeter(b[1], b[2])
    \/ \E b \in LimitBindings, rm \in MaxVals, wm \in MaxVals :
           NewLimit(b[1], rm, b[2], wm)
    \/ ZeroLimit

\* One caller, who has made no call yet (calls is for concurrent callers).
Init ==
    /\ last = [op |-> "New"]
    /\ calls = <<>>
    /\ Constructed

\* ------------------------------------------------------------------ inputs

\* A buffer and the endpoint's answer to it (an answer of more bytes than
\* the buffer holds is the answer of len(p) bytes).
IOInputs ==
    {<<p, ep>> \in {Buf(len) : len \in 0..MaxLen} \X EndpointAnswers :
        ep.k <= Len(p)}

\* The source and the sink of a drain (room for more than the source holds
\* is room for all of it, and then the sink reports no error; with room for
\* less, the copy stops at the sink and never meets the end of the source,
\* which is then taken as io.EOF).
DrainInputs ==
    {<<src, sink>> \in Sources \X Sinks :
        /\ sink.room <= src.avail
        /\ sink.room = src.avail => sink.err = Nil
        /\ sink.room < src.avail => src.end = EOF}

\* What the Close of the readable and of the writable binding return (a
\* binding that is no closer returns nothing).
CloseAnswers ==
    {a \in {Nil, ErrCloseA} \X {Nil, ErrCloseB} :
        /\ ~IsCloser(Reader) => a[1] = Nil
        /\ ~IsCloser(Writer) => a[2] = Nil}

\* The record of a transfer call: the operation, the length asked for
\* (len(p), or the bytes the source holds), the endpoint's answer (Read and
\* Write), the source and the sink (drains), the counters before the call,
\* and the outcome.
Call(op, req, ep, src, sink, out) ==
    [op |-> op, req |-> req, ep |-> ep, src |-> src, sink |-> sink,
     cr |-> rCount, cw |-> wCount, out |-> out]

\* The four transfer methods.
TransferOps == {"Read", "Write", "ReadFrom", "WriteTo"}

NoAnswer == [k |-> 0, err |-> Nil]
NoSource == [avail |-> 0, end |-> EOF]
NoSink == [room |-> 0, err |-> Nil]

\* ----------------------------------------------------------------- actions

\* x.Read(p)
Read ==
    \E in \in IOInputs :
        LET p == in[1]
            out == IF kind = "Limit"
                   THEN Limit_Read(hasMeter, Reader, rCount, rMax, p, in[2])
                   ELSE Meter_Read(Reader, p, in[2])
        IN  /\ rCount + Len(p) <= MaxCount
            /\ rCount' = Meter_AddCountRead(rCount, out.add)
            /\ last' = Call("Read", Len(p), in[2], NoSource, NoSink, out)
            /\ UNCHANGED <<bindings, calls, wCount, rMax, wMax>>

\* Faulty variant of Write: the bytes written are added to both counters.
Write_CountsBoth ==
    \E in \in IOInputs :
        LET p == in[1]
            out == IF kind = "Limit"
                   THEN Limit_Write(hasMeter, Writer, wCount, wMax, p, in[2])
                   ELSE Meter_Write(Writer, p, in[2])
        IN  /\ wCount + Len(p) <= MaxCount
            /\ rCount + Len(p) <= MaxCount
            /\ wCount' = Meter_AddCountWrite(wCount, out.add)
            /\ rCount' = Meter_AddCountRead(rCount, out.add)
            /\ last' = Call("Write", Len(p), in[2], NoSource, NoSink, out)
            /\ UNCHANGED <<bindings, calls, rMax, wMax>>

\* x.Write(p)
Write ==
    \E in \in IOInputs :
        LET p == in[1]
            out == IF kind = "Limit"
                   THEN Limit_Write(hasMeter, Writer, wCount, wMax, p, in[2])
                   ELSE Meter_Write(Writer, p, in[2])
        IN  /\ wCount + Len(p) <= MaxCount
            /\ wCount' = Meter_AddCountWrite(wCount, out.add)
            /\ last' = Call("Write", Len(p), in[2], NoSource, NoSink, out)
            /\ UNCHANGED <<bindings, calls, rCount, rMax, wMax>>

\* x.ReadFrom(r)
ReadFrom ==
    \E in \in DrainInputs :
        LET src == in[1]
            sink == in[2]
            out == IF kind = "Limit"
                   THEN Limit_ReadFrom(hasMeter, Writer, wCount, wMax, src, sink)
                   ELSE Meter_ReadFrom(Writer, src, sink)
        IN  /\ wCount + src.avail <= MaxCount
            /\ wCount' = Meter_AddCountWrite(wCount, out.add)
            /\ last' = Call("ReadFrom", src.avail, NoAnswer, src, sink, out)
            /\ UNCHANGED <<bindings, calls, rCount, rMax, wMax>>

\* Faulty variant of WriteTo: a drain that ends with an error drops the
\* readable binding.
WriteTo_Unbinds ==
    \E in \in DrainInputs :
        LET src == in[1]
            sink == in[2]
            out == IF kind = "Limit"
                   THEN Limit_WriteTo(hasMeter, Reader, rCount, rMax, src, sink)
                   ELSE Meter_WriteTo(Reader, src, sink)
        IN  /\ rCount + src.avail <= MaxCount
            /\ rCount' = Meter_AddCountRead(rCount, out.add)
            /\ last' = Call("WriteTo", src.avail, NoAnswer, src, sink, out)
            /\ Reader' = IF out.called /\ out.err # Nil THEN NoEndpoint ELSE Reader
            /\ UNCHANGED <<kind, hasMeter, Writer, calls, wCount, rMax, wMax>>

\* x.WriteTo(w)
WriteTo ==
    \E in \in DrainInputs :
        LET src == in[1]
            sink == in[2]
            out == IF kind = "Limit"
                   THEN Limit_WriteTo(hasMeter, Reader, rCount, rMax, src, sink)
                   ELSE Meter_WriteTo(Reader, src, sink)
        IN  /\ rCount + src.avail <= MaxCount
            /\ rCount' = Meter_AddCountRead(rCount, out.add)
            /\ last' = Call("WriteTo", src.avail, NoAnswer, src, sink, out)
            /\ UNCHANGED <<bindings, calls, wCount, rMax, wMax>>

\* Faulty variant of Close: the object drops the bindings it has closed.
Close_Invalidates ==
    \E a \in CloseAnswers :
        LET out == IF kind = "Limit"
                   THEN Limit_Close(hasMeter, Reader, Writer, a)
                   ELSE Meter_Close(Reader, Writer, a)
        IN  /\ last' = [op |-> "Close", answers |-> a,
                        closed |-> out.closed, err |-> out.err]
            /\ Reader' = IF IsCloser(Reader) THEN NoEndpoint ELSE Reader
            /\ Writer' = IF IsCloser(Writer) THEN NoEndpoint ELSE Writer
            /\ UNCHANGED <<kind, hasMeter, calls, rCount, wCount, rMax, wMax>>

\* io.Copy(x, x): the object drained into itself.
CopySelf ==
    \E in \in DrainInputs :
        LET src == in[1]
            sink == in[2]
            r == IF kind = "Limit"
                 THEN Limit_CopySelf(hasMeter, Reader, Writer, rCount, rMax,
                                     wCount, wMax, src, sink)
                 ELSE Meter_CopySelf(Reader, Writer, src, sink)
        IN  /\ rCount + src.avail <= MaxCount
            /\ wCount + src.avail <= MaxCount
            /\ rCount' = Meter_AddCountRead(rCount, r.out.add)
            /\ wCount' = Meter_AddCountWrite(wCount, r.wadd)
            /\ last' = Call("Copy", src.avail, NoAnswer, src, sink, r.out)
            /\ UNCHANGED <<bindings, calls, rMax, wMax>>

\* x.Close()
Close ==
    \E a \in CloseAnswers :
        LET out == IF kind = "Limit"
                   THEN Limit_Close(hasMeter, Reader, Writer, a)
                   ELSE Meter_Close(Reader, Writer, a)
        IN  /\ last' = [op |-> "Close", answers |-> a,
                        closed |-> out.closed, err |-> out.err]
            /\ UNCHANGED <<bindings, calls, rCount, wCount, rMax, wMax>>

\* m.CountRead()
CountRead ==
    /\ hasMeter
    /\ last' = [op |-> "CountRead", r |-> Meter_CountRead(rCount)]
    /\ UNCHANGED <<bindings, calls, rCount, wCount, rMax, wMax>>

\* m.CountWrite()
CountWrite ==
    /\ hasMeter
    /\ last' = [op |-> "CountWrite", w |-> Meter_CountWrite(wCount)]
    /\ UNCHANGED <<bindings, calls, rCount, wCount, rMax, wMax>>

\* m.Count(): CountRead() and CountWrite()
Count ==
    /\ hasMeter
    /\ last' = [op |-> "Count", r |-> Meter_CountRead(rCount),
                w |-> Meter_CountWrite(wCount)]
    /\ UNCHANGED <<bindings, calls, rCount, wCount, rMax, wMax>>

\* m.SetCountRead(r)
SetCountRead ==
    \E r \in CountVals :
        /\ hasMeter
        /\ rCount' = r
        /\ last' = [op |-> "SetCountRead", r |-> r]
        /\ UNCHANGED <<bindings, calls, wCount, rMax, wMax>>

\* m.SetCountWrite(w)
SetCountWrite ==
    \E w \in CountVals :
        /\ hasMeter
        /\ wCount' = w
        /\ last' = [op |-> "SetCountWrite", w |-> w]
        /\ UNCHANGED <<bindings, calls, rCount, rMax, wMax>>

\* m.SetCount(r, w): SetCountRead(r), then SetCountWrite(w)
SetCount ==
    \E c \in CountPairs :
        /\ hasMeter
        /\ rCount' = c[1]
        /\ wCount' = c[2]
        /\ last' = [op |-> "SetCount", r |-> c[1], w |-> c[2]]
        /\ UNCHANGED <<bindings, calls, rMax, wMax>>

\* m.ResetCountRead(): SetCountRead(0)
ResetCountRead ==
    /\ hasMeter
    /\ rCount' = 0
    /\ last' = [op |-> "ResetCountRead"]
    /\ UNCHANGED <<bindings, calls, wCount, rMax, wMax>>

\* m.ResetCountWrite(): SetCountWrite(0)
ResetCountWrite ==
    /\ hasMeter
    /\ wCount' = 0
    /\ last' = [op |-> "ResetCountWrite"]
    /\ UNCHANGED <<bindings, calls, rCount, rMax, wMax>>

\* m.ResetCount(): ResetCountRead(), then ResetCountWrite()
ResetCount ==
    /\ hasMeter
    /\ rCount' = 0
    /\ wCount' = 0
    /\ last' = [op |-> "ResetCount"]
    /\ UNCHANGED <<bindings, calls, rMax, wMax>>

\* The amounts AddCount is called with.
Deltas == {-1, 1}

\* m.AddCountRead(r), which returns the new count
AddCountRead ==
    \E r \in Deltas :
        /\ hasMeter
        /\ rCount + r \in CountVals
        /\ rCount' = Meter_AddCountRead(rCount, r)
        /\ last' = [op |-> "AddCountRead", r |-> r, cr |-> rCount,
                    nr |-> Meter_AddCountRead(rCount, r)]
        /\ UNCHANGED <<bindings, calls, wCount, rMax, wMax>>

\* m.AddCountWrite(w), which returns the new count
AddCountWrite ==
    \E w \in Deltas :
        /\ hasMeter
        /\ wCount + w \in CountVals
        /\ wCount' = Meter_AddCountWrite(wCount, w)
        /\ last' = [op |-> "AddCountWrite", w |-> w, cw |-> wCount,
                    nw |-> Meter_AddCountWrite(wCount, w)]
        /\ UNCHANGED <<bindings, calls, rCount, rMax, wMax>>

\* m.AddCount(r, w): AddCountRead(r) and AddCountWrite(w)
AddCount ==
    \E r \in Deltas, w \in Deltas :
        /\ hasMeter
        /\ rCount + r \in CountVals
        /\ wCount + w \in CountVals
        /\ rCount' = Meter_AddCountRead(rCount, r)
        /\ wCount' = Meter_AddCountWrite(wCount, w)
        /\ last' = [op |-> "AddCount", r |-> r, w |-> w,
                    cr |-> rCount, cw |-> wCount,
                    nr |-> Meter_AddCountRead(rCount, r),
                    nw |-> Meter_AddCountWrite(wCount, w)]
        /\ UNCHANGED <<bindings, calls, rMax, wMax>>

\* Faulty variant of SetMaxCountRead: a ceiling below the counter is refused
\* and the ceiling set to the counter.
SetMaxCountRead_NotBelowCount ==
    \E r \in MaxVals :
        /\ kind = "Limit"
        /\ rMax' = IF r # Unlimited /\ r < rCount THEN rCount ELSE r
        /\ last' = [op |-> "SetMaxCountRead", r |-> r, was |-> rMax]
        /\ UNCHANGED <<bindings, calls, rCount, wCount, wMax>>

\* l.SetMaxCountRead(r); was is the ceiling it overwrites.
SetMaxCountRead ==
    \E r \in MaxVals :
        /\ kind = "Limit"
        /\ rMax' = r
        /\ last' = [op |-> "SetMaxCountRead", r |-> r, was |-> rMax]
        /\ UNCHANGED <<bindings, calls, rCount, wCount, wMax>>

\* Faulty variant of SetMaxCountWrite: the new ceiling is held back and the
\* old one stays in force.
SetMaxCountWrite_Deferred ==
    \E w \in MaxVals :
        /\ kind = "Limit"
        /\ wMax' = wMax
        /\ last' = [op |-> "SetMaxCountWrite", w |-> w, was |-> wMax]
        /\ UNCHANGED <<bindings, calls, rCount, wCount, rMax>>

\* l.SetMaxCountWrite(w); was is the ceiling it overwrites.
SetMaxCountWrite ==
    \E w \in MaxVals :
        /\ kind = "Limit"
        /\ wMax' = w
        /\ last' = [op |-> "SetMaxCountWrite", w |-> w, was |-> wMax]
        /\ UNCHANGED <<bindings, calls, rCount, wCount, rMax>>

\* l.SetMaxCount(r, w)
SetMaxCount ==
    \E m \in MaxPairs :
        /\ kind = "Limit"
        /\ rMax' = m[1]
        /\ wMax' = m[2]
        /\ last' = [op |-> "SetMaxCount", r |-> m[1], w |-> m[2]]
        /\ UNCHANGED <<bindings, calls, rCount, wCount>>

\* ------------------------------------------------------ errors that are kept

\* The caller that keeps an error: calls[Holder] is the error, with the
\* ceilings the Limit had when the error was built.
Holder == "c1"

Held(e) == [c \in {Holder} |-> [err |-> e, rm |-> rMax, wm |-> wMax]]

\* The (req, n) a LimitError is built with.
ErrorCounts == {q \in (0..MaxLen) \X (0..MaxLen) : q[2] <= q[1]}

\* err := l.MakeReadLimitError(req, n) or l.MakeWriteLimitError(req, n)
MakeLimitError ==
    \E op \in {IO_Read, IO_Write}, q \in ErrorCounts :
        LET e == IF op = IO_Read THEN MakeReadLimitError(q[1], q[2])
                 ELSE MakeWriteLimitError(q[1], q[2])
        IN  /\ kind = "Limit"
            /\ calls' = Held(e)
            /\ last' = [op |-> "MakeLimitError"]
            /\ UNCHANGED <<bindings, rCount, wCount, rMax, wMax>>

\* A LimitError written as a literal: LimitError{}, and in the package
\* LimitError{Limit: l, op: Close} and LimitError{Limit: l, op: ReadWrite,
\* Requested: 1, Accepted: 1}.
LimitErrorLiterals ==
    { LimitErrorZero,
      LimitError(IO_Close, 0, 0),
      LimitError(IO_ReadWrite, 1, 1) }

LiteralLimitError ==
    \E e \in LimitErrorLiterals :
        /\ kind = "Limit"
        /\ calls' = Held(e)
        /\ last' = [op |-> "LimitError{}"]
        /\ UNCHANGED <<bindings, rCount, wCount, rMax, wMax>>

\* The LimitError kept is rendered: Cause(err).Error()
Render ==
    /\ kind = "Limit"
    /\ last' = [op |-> "Error",
                text |-> LimitError_Error(Cause(calls[Holder].err),
                                          Limit_MaxCountRead(rMax),
                                          Limit_MaxCountWrite(wMax))]
    /\ UNCHANGED <<bindings, calls, rCount, wCount, rMax, wMax>>

\* The errors the error the latest transfer returned is compared with: built
\* by MakeReadLimitError or MakeWriteLimitError, on this Limit -- now, at
\* another time, or at another time and then given a chain to wrap -- or
\* on another Limit.
IsTargets ==
    LET made == { <<ThisLimit, Epoch, <<>> >>, <<OtherLimit, Epoch, <<>> >> }
                    \cup { <<ThisLimit, t, w>> :
                              t \in Times \ {Epoch},
                              w \in {<<>>, <<ErrEndpoint>>} }
    IN  { Error_Wrap(MakeErrorAt([LimitError(op, q[1], q[2])
                                     EXCEPT !.Limit = m[1]], m[2]), m[3]) :
            op \in {IO_Read, IO_Write}, q \in ErrorCounts, m \in made }

\* errors.Is(err, target), err the error of the latest transfer
\* (require.ErrorIs in the tests)
ErrorIs ==
    /\ last.op \in TransferOps
    /\ last.out.err # Nil
    /\ \E target \in IsTargets :
          last' = [op |-> "Is", err |-> last.out.err, target |-> target,
                   is |-> ErrorsIs(last.out.err, target)]
    /\ UNCHANGED <<bindings, calls, rCount, wCount, rMax, wMax>>

\* ------------------------------------------- remaining capacity asked for

\* l.RemainingCountRead()
RemainingCountRead ==
    /\ kind = "Limit"
    /\ hasMeter
    /\ last' = [op |-> "RemainingCountRead",
                r |-> Limit_RemainingCountRead(rMax, rCount)]
    /\ UNCHANGED <<bindings, calls, rCount, wCount, rMax, wMax>>

\* l.RemainingCountWrite()
RemainingCountWrite ==
    /\ kind = "Limit"
    /\ hasMeter
    /\ last' = [op |-> "RemainingCountWrite",
                w |-> Limit_RemainingCountWrite(wMax, wCount)]
    /\ UNCHANGED <<bindings, calls, rCount, wCount, rMax, wMax>>

\* l.RemainingCount()
RemainingCount ==
    LET rem == Limit_RemainingCount(rMax, rCount, wMax, wCount)
    IN  /\ kind = "Limit"
        /\ hasMeter
        /\ last' = [op |-> "RemainingCount", r |-> rem[1], w |-> rem[2]]
        /\ UNCHANGED <<bindings, calls, rCount, wCount, rMax, wMax>>

\* -------------------------------------------------------- concurrent callers

\* A call of a concurrent caller advances by the steps of the method's code
\* that touch shared state: each atomic load or add of a counter, and the
\* I/O on the endpoint.  The ceilings are loaded too, but no caller here
\* stores one.  pc is the step the call is at:
\*   "rem"    rem := l.RemainingCountRead() / l.RemainingCountWrite()
\*   "check"  case l.CountRead() >= l.MaxCountRead() (Read, Write)
\*   "io"     l.Reader.Read(p), l.Writer.Write(p), io.Copy, io.CopyN
\*   "add"    l.AddCountRead(n) / l.AddCountWrite(n)
\*   "done"   returned (n, err);  "panic"  p[:rem] with rem < 0

CallReads(c) == calls[c].op \in {"Read", "WriteTo", "AddCountRead"}

CallIsTransfer(c) == calls[c].op \in TransferOps

CallIsDirect(c) == calls[c].op \in {"Read", "Write"}

\* The counter and the ceiling of the direction of c's call.
CallCount(c) == IF CallReads(c) THEN rCount ELSE wCount

CallMax(c) == IF CallReads(c) THEN rMax ELSE wMax

CallLimitError(c, req, n) ==
    IF CallReads(c) THEN MakeReadLimitError(req, n)
    ELSE MakeWriteLimitError(req, n)

\* The direct calls and the drains the callers make: the endpoint moves
\* all or part of what it is handed and reports no error; the source ends
\* with io.EOF and the sink takes all of it.
ConcurrentIOInputs == {in \in IOInputs : in[2].err = Nil}

ConcurrentDrainInputs ==
    {in \in DrainInputs : in[1].end = EOF /\ in[2].room = in[1].avail}

\* c calls Read, Write, ReadFrom or WriteTo: the test of CanRead/CanWrite,
\* and for a Meter the way to the endpoint.
CallerBegin(c) ==
    /\ calls[c].pc = "idle"
    /\ \E op \in TransferOps :
         \E in \in IF op \in {"Read", "Write"}
                   THEN {[req |-> Len(i[1]), ep |-> i[2], src |-> NoSource,
                          sink |-> NoSink] : i \in ConcurrentIOInputs}
                   ELSE {[req |-> i[1].avail, ep |-> NoAnswer, src |-> i[1],
                          sink |-> i[2]] : i \in ConcurrentDrainInputs} :
            LET can == IF op \in {"Read", "WriteTo"}
                       THEN Limit_CanRead(hasMeter, Reader)
                       ELSE Limit_CanWrite(hasMeter, Writer)
                call == [Idle EXCEPT !.op = op, !.req = in.req, !.ep = in.ep,
                                     !.src = in.src, !.sink = in.sink,
                                     !.p = Buf(in.req)]
            IN  calls' = [calls EXCEPT ![c] =
                    IF ~can
                    THEN [call EXCEPT !.pc = "done", !.err = ErrClosedPipe]
                    ELSE IF kind = "Meter" THEN [call EXCEPT !.pc = "io"]
                    ELSE [call EXCEPT !.pc = "rem"]]
    /\ UNCHANGED <<bindings, rCount, wCount, rMax, wMax, last>>

\* c calls AddCountRead(d) or AddCountWrite(d): one atomic add.
CallerAddCount(c) ==
    /\ calls[c].pc = "idle"
    /\ hasMeter
    /\ \E d \in Deltas :
          \/ /\ rCount' = Meter_AddCountRead(rCount, d)
             /\ wCount' = wCount
             /\ calls' = [calls EXCEPT ![c] =
                    [Idle EXCEPT !.pc = "done", !.op = "AddCountRead", !.n = d]]
          \/ /\ wCount' = Meter_AddCountWrite(wCount, d)
             /\ rCount' = rCount
             /\ calls' = [calls EXCEPT ![c] =
                    [Idle EXCEPT !.pc = "done", !.op = "AddCountWrite", !.n = d]]
    /\ UNCHANGED <<bindings, rMax, wMax, last>>

\* rem := l.RemainingCountRead() (RemainingCountWrite), then the cases
\* that load no counter: the ceiling Unlimited, and for a drain rem <= 0.
CallerLoadRem(c) ==
    /\ calls[c].pc = "rem"
    /\ LET rem == IF CallReads(c)
                  THEN Limit_RemainingCountRead(rMax, rCount)
                  ELSE Limit_RemainingCountWrite(wMax, wCount)
           call == [calls[c] EXCEPT !.rem = rem]
       IN  calls' = [calls EXCEPT ![c] =
               IF CallMax(c) = Unlimited THEN [call EXCEPT !.pc = "io"]
               ELSE IF CallIsDirect(c) THEN [call EXCEPT !.pc = "check"]
               ELSE IF rem <= 0
               THEN [call EXCEPT !.pc = "done",
                                 !.err = CallLimitError(c, rem, 0)]
               ELSE [call EXCEPT !.pc = "io"]]
    /\ UNCHANGED <<bindings, rCount, wCount, rMax, wMax, last>>

\* Faulty variant of CallerCheck: the request is not cut to rem.
CallerCheck_NoCut(c) ==
    /\ calls[c].pc = "check"
    /\ LET call == calls[c]
       IN  calls' = [calls EXCEPT ![c] =
               IF CallCount(c) >= CallMax(c)
               THEN [call EXCEPT !.pc = "done",
                                 !.err = CallLimitError(c, call.req, 0)]
               ELSE [call EXCEPT !.pc = "io"]]
    /\ UNCHANGED <<bindings, rCount, wCount, rMax, wMax, last>>

\* Read, Write: case l.CountRead() >= l.MaxCountRead(), which loads the
\* counter again, and case req > rem, which cuts p to p[:rem].
CallerCheck(c) ==
    /\ calls[c].pc = "check"
    /\ LET call == calls[c]
       IN  calls' = [calls EXCEPT ![c] =
               IF CallCount(c) >= CallMax(c)
               THEN [call EXCEPT !.pc = "done",
                                 !.err = CallLimitError(c, call.req, 0)]
               ELSE IF call.req > call.rem
               THEN IF call.rem < 0
                    THEN [call EXCEPT !.pc = "panic"]
                    ELSE [call EXCEPT !.pc = "io",
                             !.p = SliceTo(call.p, call.rem),
                             !.e = CallLimitError(c, call.req, call.rem)]
               ELSE [call EXCEPT !.pc = "io"]]
    /\ UNCHANGED <<bindings, rCount, wCount, rMax, wMax, last>>

\* The I/O of the call: the endpoint's Read or Write of p, or the copy of
\* the drain (io.Copy for a Meter and for an Unlimited ceiling, else
\* io.CopyN of rem bytes).
CallerIO(c) ==
    /\ calls[c].pc = "io"
    /\ LET call == calls[c]
           r == IF CallIsDirect(c) THEN EndpointIO(call.p, call.ep)
                ELSE IF kind = "Meter" \/ CallMax(c) = Unlimited
                THEN IoCopy(call.src, call.sink)
                ELSE IoCopyN(call.src, call.sink, call.rem)
       IN  calls' = [calls EXCEPT ![c] =
               [call EXCEPT !.pc = "add", !.n = r.n,
                            !.err = IF r.err = Nil THEN call.e ELSE r.err]]
    /\ UNCHANGED <<bindings, rCount, wCount, rMax, wMax, last>>

\* Faulty variant of CallerAdd: the counter is stored as the value loaded for
\* rem plus n (a load and a store in place of the atomic add).
CallerAdd_LoadStore(c) ==
    /\ calls[c].pc = "add"
    /\ LET seen == IF kind = "Limit" /\ CallMax(c) # Unlimited
                   THEN CallMax(c) - calls[c].rem ELSE CallCount(c)
       IN  IF CallReads(c)
           THEN /\ rCount' = seen + calls[c].n
                /\ wCount' = wCount
           ELSE /\ wCount' = seen + calls[c].n
                /\ rCount' = rCount
    /\ calls' = [calls EXCEPT ![c].pc = "done"]
    /\ UNCHANGED <<bindings, rMax, wMax, last>>

\* _ = l.AddCountRead(int64(n)) (AddCountWrite), and the return.
CallerAdd(c) ==
    /\ calls[c].pc = "add"
    /\ IF CallReads(c)
       THEN /\ rCount' = Meter_AddCountRead(rCount, calls[c].n)
            /\ wCount' = wCount
       ELSE /\ wCount' = Meter_AddCountWrite(wCount, calls[c].n)
            /\ rCount' = rCount
    /\ calls' = [calls EXCEPT ![c].pc = "done"]
    /\ UNCHANGED <<bindings, rMax, wMax, last>>

\* ------------------------------------------- callers that race with setters

\* With callers that store ceilings and counters while a Read or a Write
\* runs, every atomic load of the call is a step of its own:
\*   "rem"     l.MaxCountRead() in RemainingCountRead        (max loaded)
\*   "rem2"    l.CountRead() there; rem := max - count
\*   "unl"     case l.MaxCountRead() == Unlimited
\*   "check"   l.CountRead() of case l.CountRead() >= l.MaxCountRead()
\*   "check2"  l.MaxCountRead() of that case, then case req > rem: p[:rem]
\* and then "io", "add", "done" as before; "panic": p[:rem] with rem < 0.
\* max and count are the values the call has loaded.
RaceIdle ==
    [pc |-> "idle", op |-> "none", req |-> 0, ep |-> NoAnswer,
     src |-> NoSource, sink |-> NoSink, rem |-> 0, p |-> <<>>, e |-> Nil,
     n |-> 0, err |-> Nil, max |-> 0, count |-> 0]

\* c calls l.Read(p) or l.Write(p): the test of CanRead/CanWrite.
RaceBegin(c) ==
    /\ calls[c].pc = "idle"
    /\ \E op \in {"Read", "Write"}, in \in ConcurrentIOInputs :
          LET can == IF op = "Read" THEN Limit_CanRead(hasMeter, Reader)
                     ELSE Limit_CanWrite(hasMeter, Writer)
              call == [RaceIdle EXCEPT !.op = op, !.req = Len(in[1]),
                                       !.ep = in[2], !.p = in[1]]
          IN  calls' = [calls EXCEPT ![c] =
                  IF ~can
                  THEN [call EXCEPT !.pc = "done", !.err = ErrClosedPipe]
                  ELSE [call EXCEPT !.pc = "rem"]]
    /\ UNCHANGED <<bindings, rCount, wCount, rMax, wMax, last>>

\* c makes one call that stores a ceiling or a counter, or adds to a
\* counter: one atomic store or add.
RaceSet(c) ==
    /\ calls[c].pc = "idle"
    /\ \/ \E m \in MaxVals :
             /\ rMax' = m
             /\ calls' = [calls EXCEPT ![c] =
                    [RaceIdle EXCEPT !.pc = "done", !.op = "SetMaxCountRead"]]
             /\ UNCHANGED <<rCount, wCount, wMax>>
       \/ \E m \in MaxVals :
             /\ wMax' = m
             /\ calls' = [calls EXCEPT ![c] =
                    [RaceIdle EXCEPT !.pc = "done", !.op = "SetMaxCountWrite"]]
             /\ UNCHANGED <<rCount, wCount, rMax>>
       \/ \E v \in CountVals :
             /\ rCount' = v
             /\ calls' = [calls EXCEPT ![c] =
                    [RaceIdle EXCEPT !.pc = "done", !.op = "SetCountRead"]]
             /\ UNCHANGED <<wCount, rMax, wMax>>
       \/ \E v \in CountVals :
             /\ wCount' = v
             /\ calls' = [calls EXCEPT ![c] =
                    [RaceIdle EXCEPT !.pc = "done", !.op = "SetCountWrite"]]
             /\ UNCHANGED <<rCount, rMax, wMax>>
       \/ \E d \in Deltas :
             /\ rCount' = Meter_AddCountRead(rCount, d)
             /\ calls' = [calls EXCEPT ![c] =
                    [RaceIdle EXCEPT !.pc = "done", !.op = "AddCountRead"]]
             /\ UNCHANGED <<wCount, rMax, wMax>>
       \/ \E d \in Deltas :
             /\ wCount' = Meter_AddCountWrite(wCount, d)
             /\ calls' = [calls EXCEPT ![c] =
                    [RaceIdle EXCEPT !.pc = "done", !.op = "AddCountWrite"]]
             /\ UNCHANGED <<rCount, rMax, wMax>>
    /\ UNCHANGED <<bindings, last>>

\* l.MaxCountRead() (MaxCountWrite) in RemainingCountRead
RaceLoadMax(c) ==
    /\ calls[c].pc = "rem"
    /\ calls' = [calls EXCEPT ![c].pc = "rem2", ![c].max = CallMax(c)]
    /\ UNCHANGED <<bindings, rCount, wCount, rMax, wMax, last>>

\* l.CountRead() (CountWrite) in RemainingCountRead; rem := max - count
RaceLoadRem(c) ==
    /\ calls[c].pc = "rem2"
    /\ calls' = [calls EXCEPT ![c].pc = "unl",
                              ![c].rem = IF CallReads(c)
                                         THEN Limit_RemainingCountRead(
                                                  calls[c].max, rCount)
                                         ELSE Limit_RemainingCountWrite(
                                                  calls[c].max, wCount)]
    /\ UNCHANGED <<bindings, rCount, wCount, rMax, wMax, last>>

\* case l.MaxCountRead() == Unlimited: return l.Meter.Read(p)
RaceUnlimited(c) ==
    /\ calls[c].pc = "unl"
    /\ calls' = [calls EXCEPT ![c].pc =
                    IF CallMax(c) = Unlimited THEN "io" ELSE "check"]
    /\ UNCHANGED <<bindings, rCount, wCount, rMax, wMax, last>>

\* l.CountRead() of case l.CountRead() >= l.MaxCountRead()
RaceLoadCount(c) ==
    /\ calls[c].pc = "check"
    /\ calls' = [calls EXCEPT ![c].pc = "check2", ![c].count = CallCount(c)]
    /\ UNCHANGED <<bindings, rCount, wCount, rMax, wMax, last>>

\* l.MaxCountRead() of that case and the case itself; then case req > rem,
\* which cuts p to p[:rem] and panics when rem is negative.
RaceCheck(c) ==
    /\ calls[c].pc = "check2"
    /\ LET call == calls[c]
       IN  calls' = [calls EXCEPT ![c] =
               IF call.count >= CallMax(c)
               THEN [call EXCEPT !.pc = "done",
                                 !.err = CallLimitError(c, call.req, 0)]
               ELSE IF call.req > call.rem
               THEN IF call.rem < 0
                    THEN [call EXCEPT !.pc = "panic"]
                    ELSE [call EXCEPT !.pc = "io",
                             !.p = SliceTo(call.p, call.rem),
                             !.e = CallLimitError(c, call.req, call.rem)]
               ELSE [call EXCEPT !.pc = "io"]]
    /\ UNCHANGED <<bindings, rCount, wCount, rMax, wMax, last>>

\* ------------------------------------------------- a drain, turn by turn

\* A drain whose source need not end: the copy loop of io.Copy advances by
\* one turn per step, and what the source and the sink answer in a turn is
\* an input of the turn.  calls[Holder] is the call:
\*   pc       "idle", "copy" (in the loop), "add" (the loop has ended),
\*            "done" (returned)
\*   limited  the copy is io.CopyN: the source is inside a LimitedReader
\*   rem      the n of io.CopyN;  N  what the LimitedReader has left
\*   written  the bytes written so far
\*   rd, wr   the answers of the source and of the sink in the latest turn
\*   err      the error returned
DrainIdle ==
    [pc |-> "idle", op |-> "none", limited |-> FALSE, rem |-> 0, N |-> 0,
     written |-> 0, rd |-> NoAnswer, wr |-> NoAnswer, err |-> Nil]

\* What a source answers to a Read of want bytes: at least one byte, or an
\* error (with or without bytes); a source hands over no more than MaxLen
\* bytes at a time.
DrainReads(want) ==
    {[k |-> k, err |-> e] : k \in 0..Min(want, MaxLen),
                            e \in {Nil, EOF, ErrEndpoint}}
        \ {[k |-> 0, err |-> Nil]}

\* What a sink answers to a Write of nr bytes.
DrainWrites(nr) ==
    {[k |-> k, err |-> e] : k \in 0..nr, e \in {Nil, ErrEndpoint}}

\* x.ReadFrom(r) or x.WriteTo(w) up to the copy: the test of
\* CanWrite/CanRead and, on a Limit, the cases of the switch.
DrainBegin ==
    /\ calls[Holder].pc = "idle"
    /\ \E op \in {"ReadFrom", "WriteTo"} :
          LET can == IF op = "WriteTo" THEN Limit_CanRead(hasMeter, Reader)
                     ELSE Limit_CanWrite(hasMeter, Writer)
              max == IF op = "WriteTo" THEN rMax ELSE wMax
              rem == IF op = "WriteTo"
                     THEN Limit_RemainingCountRead(rMax, rCount)
                     ELSE Limit_RemainingCountWrite(wMax, wCount)
              call == [DrainIdle EXCEPT !.op = op]
          IN  calls' = [calls EXCEPT ![Holder] =
                  IF ~can
                  THEN [call EXCEPT !.pc = "done", !.err = ErrClosedPipe]
                  ELSE IF kind = "Meter" \/ max = Unlimited
                  THEN [call EXCEPT !.pc = "copy"]
                  ELSE IF rem <= 0
                  THEN [call EXCEPT !.pc = "done",
                           !.err = IF op = "WriteTo"
                                   THEN MakeReadLimitError(rem, 0)
                                   ELSE MakeWriteLimitError(rem, 0)]
                  ELSE [call EXCEPT !.pc = "copy", !.limited = TRUE,
                                    !.rem = rem, !.N = rem]]
    /\ UNCHANGED <<bindings, rCount, wCount, rMax, wMax, last>>

\* The error io.CopyN returns for what its io.Copy returned.
CopyNError(call, written, err) ==
    IF ~call.limited THEN err
    ELSE IF written = call.rem THEN Nil
    ELSE IF written < call.rem /\ err = Nil THEN EOF
    ELSE err

\* The call after a turn in which the source answered rd and the sink wr
\* (no Write is made of 0 bytes read, and wr is then no answer); the
\* LimitedReader takes what was read off its N before the loop sees it.
AfterTurn(call, rd, wr) ==
    LET nr == rd.k
        nw == IF nr > 0 THEN wr.k ELSE 0
        ew == IF nr > 0 THEN wr.err ELSE Nil
        written == call.written + nw
        seen == [call EXCEPT !.rd = rd,
                             !.wr = IF nr > 0 THEN wr ELSE NoAnswer,
                             !.written = written,
                             !.N = IF call.limited THEN @ - nr ELSE @]
    IN  IF nr > 0 /\ ew # Nil
        THEN [seen EXCEPT !.pc = "add", !.err = CopyNError(call, written, ew)]
        ELSE IF nr > 0 /\ nr # nw
        THEN [seen EXCEPT !.pc = "add",
                          !.err = CopyNError(call, written, ErrShortWrite)]
        ELSE IF rd.err # Nil
        THEN [seen EXCEPT !.pc = "add",
                 !.err = CopyNError(call, written,
                                    IF rd.err = EOF THEN Nil ELSE rd.err)]
        ELSE seen

\* Faulty variant of DrainTurn: a LimitedReader that has nothing left asks the
\* source for 0 bytes and reports no end.
DrainTurn_NoEnd ==
    /\ calls[Holder].pc = "copy"
    /\ LET call == calls[Holder]
           size == IF call.limited THEN Min(CopyBuf, call.rem) ELSE CopyBuf
           want == IF call.limited THEN Min(size, call.N) ELSE size
       IN  IF call.limited /\ call.N <= 0
           THEN calls' = [calls EXCEPT ![Holder] =
                    [call EXCEPT !.rd = NoAnswer, !.wr = NoAnswer]]
           ELSE \E rd \in DrainReads(want) : \E wr \in DrainWrites(rd.k) :
                    /\ call.written + rd.k <= MaxCount
                    /\ calls' = [calls EXCEPT ![Holder] = AfterTurn(call, rd, wr)]
    /\ UNCHANGED <<bindings, rCount, wCount, rMax, wMax, last>>

\* One turn of the copy loop: a Read of the source (of the LimitedReader,
\* which reports io.EOF when it has nothing left and else asks the source
\* for no more than it has left), a Write of what was read, and the tests
\* that end the loop.
DrainTurn ==
    /\ calls[Holder].pc = "copy"
    /\ LET call == calls[Holder]
           size == IF call.limited THEN Min(CopyBuf, call.rem) ELSE CopyBuf
           want == IF call.limited THEN Min(size, call.N) ELSE size
       IN  IF call.limited /\ call.N <= 0
           THEN calls' = [calls EXCEPT ![Holder] =
                    [call EXCEPT !.pc = "add", !.rd = [k |-> 0, err |-> EOF],
                                 !.wr = NoAnswer,
                                 !.err = CopyNError(call, call.written, Nil)]]
           ELSE \E rd \in DrainReads(want) : \E wr \in DrainWrites(rd.k) :
                    /\ call.written + rd.k <= MaxCount
                    /\ calls' = [calls EXCEPT ![Holder] = AfterTurn(call, rd, wr)]
    /\ UNCHANGED <<bindings, rCount, wCount, rMax, wMax, last>>

\* m.AddCountWrite(n) (ReadFrom) or m.AddCountRead(n) (WriteTo), and the
\* return.
DrainAdd ==
    /\ calls[Holder].pc = "add"
    /\ IF calls[Holder].op = "WriteTo"
       THEN /\ rCount' = Meter_AddCountRead(rCount, calls[Holder].written)
            /\ wCount' = wCount
       ELSE /\ wCount' = Meter_AddCountWrite(wCount, calls[Holder].written)
            /\ rCount' = rCount
    /\ calls' = [calls EXCEPT ![Holder].pc = "done"]
    /\ UNCHANGED <<bindings, rMax, wMax, last>>

\* ------------------------------------------------------------ specification

\* The four transfer calls.
Transfer == Read \/ Write \/ ReadFrom \/ WriteTo

Next ==
    \/ Read
    \/ Write
    \/ ReadFrom
    \/ WriteTo
    \/ Close
    \/ CountRead
    \/ CountWrite
    \/ Count
    \/ SetCountRead
    \/ SetCountWrite
    \/ SetCount
    \/ ResetCountRead
    \/ ResetCountWrite
    \/ ResetCount
    \/ AddCountRead
    \/ AddCountWrite
    \/ AddCount
    \/ SetMaxCountRead
    \/ SetMaxCountWrite
    \/ SetMaxCount

Spec == Init /\ [][Next]_vars

\* Transfer calls only, made one at a time: no counter or ceiling setter.
SpecTransfers == Init /\ [][Transfer]_vars

\* A Meter or a Limit constructed with both ends (NewMeter,
\* NewReadWriteMeter, NewLimit, NewReadWriteLimit).
InitBothEnds ==
    /\ Init
    /\ Reader # NoEndpoint
    /\ Writer # NoEndpoint

\* Every call, made one at a time, on an object that has both ends.
SpecBothEnds == InitBothEnds /\ [][Next]_vars

\* An object that has both ends, drained into itself again and again, its
\* counters reset in between.
SpecCopySelf == InitBothEnds /\ [][CopySelf \/ ResetCount]_vars

\* A Limit whose caller keeps a LimitError (at first LimitError{}), sets
\* ceilings and renders the error.
InitRender ==
    /\ last = [op |-> "New"]
    /\ kind = "Limit"
    /\ Constructed
    /\ Reader # NoEndpoint
    /\ Writer # NoEndpoint
    /\ calls = Held(LimitErrorZero)

NextRender ==
    \/ MakeLimitError
    \/ LiteralLimitError
    \/ Render
    \/ SetMaxCountRead
    \/ SetMaxCountWrite
    \/ SetMaxCount

SpecRender == InitRender /\ [][NextRender]_vars

\* Transfers on a Limit that has both ends, the error of each compared by
\* the caller with errors of the caller's making.
InitErrorIs ==
    /\ InitBothEnds
    /\ kind = "Limit"

SpecErrorIs == InitErrorIs /\ [][Transfer \/ ErrorIs]_vars

\* A Limit that has both ends: transfers, the caller asking for the
\* remaining capacity and setting ceilings in between.
NextRemaining ==
    \/ Transfer
    \/ RemainingCountRead
    \/ RemainingCountWrite
    \/ RemainingCount
    \/ SetMaxCountRead
    \/ SetMaxCountWrite

SpecRemaining == InitErrorIs /\ [][NextRemaining]_vars

\* Concurrent callers, each making one call on a Meter or a Limit that has
\* both ends; no caller sets or resets a counter or sets a ceiling.
InitConcurrent ==
    /\ last = [op |-> "New"]
    /\ calls = [c \in Callers |-> Idle]
    /\ Constructed
    /\ Reader # NoEndpoint
    /\ Writer # NoEndpoint

NextConcurrent ==
    \E c \in Callers :
        \/ CallerBegin(c)
        \/ CallerAddCount(c)
        \/ CallerLoadRem(c)
        \/ CallerCheck(c)
        \/ CallerIO(c)
        \/ CallerAdd(c)

SpecConcurrent == InitConcurrent /\ [][NextConcurrent]_vars

\* Concurrent callers on a Limit that has both ends, each making one call:
\* a Read or a Write, or a store of a ceiling or of a counter.
InitRace ==
    /\ last = [op |-> "New"]
    /\ calls = [c \in Callers |-> RaceIdle]
    /\ kind = "Limit"
    /\ Constructed
    /\ Reader # NoEndpoint
    /\ Writer # NoEndpoint

NextRace ==
    \E c \in Callers :
        \/ RaceBegin(c)
        \/ RaceSet(c)
        \/ RaceLoadMax(c)
        \/ RaceLoadRem(c)
        \/ RaceUnlimited(c)
        \/ RaceLoadCount(c)
        \/ RaceCheck(c)
        \/ CallerIO(c)
        \/ CallerAdd(c)

SpecRace == InitRace /\ [][NextRace]_vars

\* One drain on a fresh object, turn by turn.
InitDrain ==
    /\ last = [op |-> "New"]
    /\ calls = [c \in {Holder} |-> DrainIdle]
    /\ Constructed

NextDrain == DrainBegin \/ DrainTurn \/ DrainAdd

SpecDrain == InitDrain /\ [][NextDrain]_vars

\* Every call of an endpoint returns, and so does the call that adds to the
\* counter: a turn that can be taken is taken.
SpecDrainFair == SpecDrain /\ WF_vars(DrainTurn) /\ WF_vars(DrainAdd)

\* ------------------------------------------------- reading the latest call

\* The latest call is a transfer (on a Limit).
IsTransfer == last.op \in TransferOps

IsLimitTransfer == kind = "Limit" /\ IsTransfer

\* Read and WriteTo use the readable end, the read counter and the read
\* ceiling; Write and ReadFrom the writable end and the write ones.
ReadSide == last.op \in {"Read", "WriteTo"}

\* Of the latest transfer: whether its end is bound, its counter before
\* and after the call, its ceiling (no transfer changes a ceiling), the
\* remaining capacity it met, and the LimitError of its direction.
Bound == hasMeter /\ (IF ReadSide THEN Reader ELSE Writer) # NoEndpoint

Before == IF ReadSide THEN last.cr ELSE last.cw

After == IF ReadSide THEN rCount ELSE wCount

Ceiling == IF ReadSide THEN rMax ELSE wMax

Rem == Ceiling - Before

DirLimitError(req, n) ==
    IF ReadSide THEN MakeReadLimitError(req, n) ELSE MakeWriteLimitError(req, n)

\* The endpoint moved, without an error, all it was handed.
EndpointFaultless ==
    last.out.epN = Len(last.out.handed) /\ last.out.epErr = Nil

\* ------------------------------------------------------------------ claims

\* C1: Limit.Read and Limit.Write, finite ceiling, a request of length R
\* larger than the remaining capacity Rem > 0, an endpoint that moves what
\* it is handed without error: the endpoint is handed the first Rem bytes
\* of the buffer, the call returns (Rem, LimitError{R, Rem}) of its
\* direction, and the counter advances by exactly Rem.
C1_TruncatedRequest ==
    ( /\ kind = "Limit"
      /\ last.op \in {"Read", "Write"}
      /\ Bound
      /\ Ceiling # Unlimited
      /\ 0 < Rem
      /\ Rem < last.req
      /\ last.out.called => EndpointFaultless )
    => /\ last.out.called
       /\ last.out.handed = [i \in 1..Rem |-> i]
       /\ last.out.n = Rem
       /\ last.out.err = DirLimitError(last.req, Rem)
       /\ After = Before + Rem

\* A request of 2 bytes with 1 byte left was cut to 1 byte.
C1_Witness ==
    /\ kind = "Limit"
    /\ last.op \in {"Read", "Write"}
    /\ Ceiling # Unlimited
    /\ last.req = 2
    /\ Rem = 1
    /\ last.out.called
    /\ last.out.n = 1
    /\ IsLimitError(last.out.err)

\* C2: Limit.Read and Limit.Write with a finite ceiling and the counter at
\* or above it: the call returns (0, LimitError{len(p), 0}), the endpoint is
\* not invoked and the counter is unchanged -- in every such call.
C2_Exhausted ==
    ( /\ kind = "Limit"
      /\ last.op \in {"Read", "Write"}
      /\ Bound
      /\ Ceiling # Unlimited
      /\ Before >= Ceiling )
    => /\ ~last.out.called
       /\ last.out.n = 0
       /\ last.out.err = DirLimitError(last.req, 0)
       /\ After = Before

\* A request of 1 byte was refused with the counter above the ceiling.
C2_Witness ==
    /\ kind = "Limit"
    /\ last.op \in {"Read", "Write"}
    /\ Bound
    /\ Ceiling # Unlimited
    /\ Before > Ceiling
    /\ last.req = 1
    /\ IsLimitError(last.out.err)

\* C3: under transfer calls made one at a time, from counters 0 and with
\* no setter: a counter whose ceiling is finite (>= 0) never exceeds it.
C3_HardCeiling ==
    kind = "Limit" =>
        /\ (rMax >= 0 => rCount <= rMax)
        /\ (wMax >= 0 => wCount <= wMax)

\* A drain of a source holding more than the ceiling filled the counter up
\* to the ceiling.
C3_Witness ==
    /\ kind = "Limit"
    /\ last.op \in {"ReadFrom", "WriteTo"}
    /\ Ceiling = 1
    /\ last.req = 2
    /\ Before = 0
    /\ After = 1

\* C4 as stated: on each of the four transfer calls of a Limit, whenever a
\* finite ceiling makes the call move fewer bytes than were requested or
\* than the source holds, the call returns its byte count with a LimitError;
\* a cut by the ceiling is never reported with a nil error.
\* CeilingCut: the request exceeded the remaining capacity, the sink of a
\* drain had room for all the source holds, the underlying transfer
\* reported no error, and the bytes moved are the capacity left.
CeilingCut ==
    /\ IsLimitTransfer
    /\ Bound
    /\ Ceiling # Unlimited
    /\ last.req > Rem
    /\ last.sink.room >= last.src.avail
    /\ last.out.epErr = Nil
    /\ last.out.n = (IF Rem > 0 THEN Rem ELSE 0)

C4_Original == CeilingCut => IsLimitError(last.out.err)

\* C4 as amended: Read and Write return, on every cut by the ceiling, the
\* partial byte count with the LimitError{requested, accepted: that count};
\* ReadFrom and WriteTo return a LimitError exactly when no capacity remains
\* (and then 0 bytes), and a drain cut at Rem > 0 returns its Rem bytes with
\* a nil error.
C4_CutReported ==
    /\ ( /\ CeilingCut
         /\ last.op \in {"Read", "Write"} )
       => last.out.err = DirLimitError(last.req, last.out.n)
    /\ ( /\ IsLimitTransfer
         /\ Bound
         /\ Ceiling # Unlimited
         /\ last.op \in {"ReadFrom", "WriteTo"} )
       => /\ IsLimitError(last.out.err) <=> Rem <= 0
          /\ IsLimitError(last.out.err) => last.out.n = 0
          /\ (0 < Rem /\ Rem < last.req /\ last.out.n = Rem)
                 => last.out.err = Nil

\* A drain of 2 bytes was cut to the 1 byte left and returned no error.
C4_Witness ==
    /\ CeilingCut
    /\ last.op \in {"ReadFrom", "WriteTo"}
    /\ Rem = 1
    /\ last.req = 2
    /\ last.out.n = 1
    /\ last.out.err = Nil

\* C5 as stated: Limit.ReadFrom and Limit.WriteTo with a finite ceiling and
\* no remaining capacity (Rem <= 0, negative values included) return
\* (0, LimitError{requested: 0, accepted: 0}), read no byte from the source
\* and leave the counter unchanged.
C5_Original ==
    ( /\ kind = "Limit"
      /\ last.op \in {"ReadFrom", "WriteTo"}
      /\ Bound
      /\ Ceiling # Unlimited
      /\ Rem <= 0 )
    => /\ last.out.n = 0
       /\ last.out.err = DirLimitError(0, 0)
       /\ ~last.out.called
       /\ last.out.pulled = 0
       /\ After = Before

\* C6: a Limit whose ceiling for a direction is Unlimited does in every
\* transfer of that direction, at every counter value, what a Meter on the
\* same endpoints does: the same outcome (bytes, error, what the endpoint
\* is handed) and the same counter afterwards; it returns no LimitError.
MeterOutcome ==
    CASE last.op = "Read" -> Meter_Read(Reader, Buf(last.req), last.ep)
      [] last.op = "Write" -> Meter_Write(Writer, Buf(last.req), last.ep)
      [] last.op = "ReadFrom" -> Meter_ReadFrom(Writer, last.src, last.sink)
      [] last.op = "WriteTo" -> Meter_WriteTo(Reader, last.src, last.sink)

C6_UnlimitedIsMeter ==
    ( /\ IsLimitTransfer
      /\ Ceiling = Unlimited )
    => /\ last.out = MeterOutcome
       /\ After = Before + MeterOutcome.add
       /\ ~IsLimitError(last.out.err)

\* An unlimited Limit moved a whole 2-byte request with its counter
\* already at 1.
C6_Witness ==
    /\ IsLimitTransfer
    /\ Ceiling = Unlimited
    /\ Before = 1
    /\ last.req = 2
    /\ last.out.n = 2
    /\ After = 3

\* C7: in every transfer call of a Meter or a Limit that reaches the
\* endpoint, whatever the outcome, the byte count returned is the count the
\* underlying transfer reported and the counter of the direction changes by
\* exactly that count.
C7_CountsWhatMoved ==
    ( /\ IsTransfer
      /\ last.out.called )
    => /\ last.out.n = last.out.epN
       /\ After = Before + last.out.epN

\* The endpoint moved 1 of the 2 bytes asked for and reported an error.
C7_Witness ==
    /\ IsTransfer
    /\ last.out.called
    /\ last.req = 2
    /\ last.out.epN = 1
    /\ last.out.epErr # Nil
    /\ After = Before + 1

\* C8: without a readable binding Read and WriteTo, and without a writable
\* binding Write and ReadFrom, return (0, io.ErrClosedPipe) -- on a Meter,
\* on a Limit and on a Limit with no Meter; nothing is touched, no counter
\* changes, and this comes before any ceiling check.
C8_ClosedEndpoint ==
    ( /\ IsTransfer
      /\ ~Bound )
    => /\ last.out.n = 0
       /\ last.out.err = ErrClosedPipe
       /\ ~last.out.called
       /\ last.out.pulled = 0
       /\ rCount = last.cr
       /\ wCount = last.cw

\* A Limit with no writer and its write ceiling used up answered a Write
\* with io.ErrClosedPipe.
C8_Witness ==
    /\ kind = "Limit"
    /\ last.op = "Write"
    /\ Writer = NoEndpoint
    /\ wMax # Unlimited
    /\ wCount >= wMax
    /\ last.req > 0
    /\ last.out.err = ErrClosedPipe

\* C9: Limit.Read and Limit.Write on a truncated request (len(p) > Rem > 0):
\* an error of the endpoint's own is returned unchanged and the pending
\* LimitError dropped; with no endpoint error the pending LimitError is
\* returned; either way the byte count is the endpoint's and the counter
\* advances by it.
C9_ErrorPrecedence ==
    ( /\ kind = "Limit"
      /\ last.op \in {"Read", "Write"}
      /\ Bound
      /\ Ceiling # Unlimited
      /\ 0 < Rem
      /\ Rem < last.req )
    => /\ last.out.called
       /\ last.out.epErr # Nil => last.out.err = last.out.epErr
       /\ last.out.epErr = Nil => last.out.err = DirLimitError(last.req, Rem)
       /\ last.out.n = last.out.epN
       /\ After = Before + last.out.epN

\* A truncated request on which the endpoint moved the byte and reported
\* its own error.
C9_Witness ==
    /\ kind = "Limit"
    /\ last.op \in {"Read", "Write"}
    /\ Ceiling # Unlimited
    /\ Rem = 1
    /\ last.req = 2
    /\ last.out.called
    /\ last.out.epN = 1
    /\ last.out.epErr = ErrEndpoint
    /\ last.out.err = ErrEndpoint

\* C10: Close invokes Close on every bound endpoint that is a closer, the
\* readable binding first and the writable one next, also after a failed
\* first Close; it returns nil when nothing was closed or every Close
\* succeeded, and otherwise one error that errors.Is matches with every
\* non-nil Close error.  With no bindings, or no Meter, it returns nil.
ClosersBound ==
    IF hasMeter THEN SelectSeq(<<Reader, Writer>>, IsCloser) ELSE <<>>

CloseErrors ==
    {last.answers[i] : i \in {j \in 1..2 :
        hasMeter /\ IsCloser(<<Reader, Writer>>[j])}} \ {Nil}

C10_Close ==
    last.op = "Close" =>
        /\ last.closed = ClosersBound
        /\ CloseErrors = {} <=> last.err = Nil
        /\ \A e \in CloseErrors : ErrorsIs(last.err, e)

\* Both Close calls failed and the error returned matches both.
C10_Witness ==
    /\ last.op = "Close"
    /\ Len(last.closed) = 2
    /\ last.answers = <<ErrCloseA, ErrCloseB>>
    /\ ErrorsIs(last.err, ErrCloseA)
    /\ ErrorsIs(last.err, ErrCloseB)

\* ------------------------------------------------------- reading one step

\* In a step, last' is the call the step makes and the unprimed variables
\* are the object as the call finds it.
StepReads == last'.op \in {"Read", "WriteTo"}

StepWrites == last'.op \in {"Write", "ReadFrom"}

\* The step is a Read or a Write of a Limit whose end is bound.
StepLimitRead == kind = "Limit" /\ last'.op = "Read" /\ Limit_CanRead(hasMeter, Reader)

StepLimitWrite == kind = "Limit" /\ last'.op = "Write" /\ Limit_CanWrite(hasMeter, Writer)

\* A direct call that is turned away: 0 bytes, the LimitError e, the
\* endpoint not reached.
StepRefused(e) ==
    /\ ~last'.out.called
    /\ last'.out.n = 0
    /\ last'.out.err = e

\* A direct call that reaches the endpoint with the first k bytes of its
\* buffer and returns the endpoint's count.
StepHands(k) ==
    /\ last'.out.called
    /\ last'.out.handed = [i \in 1..k |-> i]
    /\ last'.out.n = last'.out.epN

\* C11: a ceiling setter called with a finite value below the counter
\* stores that value, and the remaining capacity is then <= 0; every direct
\* Read/Write that finds remaining capacity <= 0 returns 0 bytes with the
\* LimitError and does not reach the endpoint; every direct Read/Write that
\* finds remaining capacity > 0 (the ceiling raised, or the counter reset)
\* or the ceiling Unlimited reaches the endpoint again, with the request cut
\* to the capacity that remains.
C11_LoweredStep ==
    /\ ( /\ last'.op = "SetMaxCountRead"
         /\ last'.r # Unlimited
         /\ last'.r < rCount )
       => /\ rMax' = last'.r
          /\ Limit_RemainingCountRead(rMax', rCount') <= 0
    /\ ( /\ last'.op = "SetMaxCountWrite"
         /\ last'.w # Unlimited
         /\ last'.w < wCount )
       => /\ wMax' = last'.w
          /\ Limit_RemainingCountWrite(wMax', wCount') <= 0
    /\ StepLimitRead =>
          LET rem == Limit_RemainingCountRead(rMax, rCount)
          IN  IF rMax = Unlimited
              THEN StepHands(last'.req)
              ELSE IF rem <= 0
              THEN /\ StepRefused(MakeReadLimitError(last'.req, 0))
                   /\ rCount' = rCount
              ELSE /\ StepHands(Min(last'.req, rem))
                   /\ rCount' = rCount + last'.out.n
    /\ StepLimitWrite =>
          LET rem == Limit_RemainingCountWrite(wMax, wCount)
          IN  IF wMax = Unlimited
              THEN StepHands(last'.req)
              ELSE IF rem <= 0
              THEN /\ StepRefused(MakeWriteLimitError(last'.req, 0))
                   /\ wCount' = wCount
              ELSE /\ StepHands(Min(last'.req, rem))
                   /\ wCount' = wCount + last'.out.n

C11_LoweredCeiling == [][C11_LoweredStep]_vars

\* SetMaxCountRead lowered a finite read ceiling to a value below the
\* counter of a Limit with a reader.
C11_Witness ==
    /\ last.op = "SetMaxCountRead"
    /\ Reader # NoEndpoint
    /\ last.was # Unlimited
    /\ last.r # Unlimited
    /\ last.r < last.was
    /\ last.r < rCount
    /\ rMax = last.r

\* C12: the ceiling setters store their arguments at once; the transfer
\* call that follows a setter is decided with the value just set; and a
\* transfer call that finds its ceiling Unlimited -- at any counter value --
\* hands over the whole request (a drain: copies all the plain copy does)
\* and returns no LimitError.
C12_SetterStep ==
    /\ last'.op = "SetMaxCountRead" =>
          /\ rMax' = last'.r
          /\ UNCHANGED <<wMax, rCount, wCount>>
    /\ last'.op = "SetMaxCountWrite" =>
          /\ wMax' = last'.w
          /\ UNCHANGED <<rMax, rCount, wCount>>
    /\ last'.op = "SetMaxCount" =>
          /\ rMax' = last'.r
          /\ wMax' = last'.w
          /\ UNCHANGED <<rCount, wCount>>
    /\ (last.op \in {"SetMaxCountRead", "SetMaxCount"} /\ kind = "Limit") =>
          /\ last'.op = "Read" =>
                last'.out = Limit_Read(hasMeter, Reader, rCount, last.r,
                                       Buf(last'.req), last'.ep)
          /\ last'.op = "WriteTo" =>
                last'.out = Limit_WriteTo(hasMeter, Reader, rCount, last.r,
                                          last'.src, last'.sink)
    /\ (last.op \in {"SetMaxCountWrite", "SetMaxCount"} /\ kind = "Limit") =>
          /\ last'.op = "Write" =>
                last'.out = Limit_Write(hasMeter, Writer, wCount, last.w,
                                        Buf(last'.req), last'.ep)
          /\ last'.op = "ReadFrom" =>
                last'.out = Limit_ReadFrom(hasMeter, Writer, wCount, last.w,
                                           last'.src, last'.sink)
    /\ ( /\ kind = "Limit"
         /\ \/ StepReads /\ rMax = Unlimited /\ Limit_CanRead(hasMeter, Reader)
            \/ StepWrites /\ wMax = Unlimited /\ Limit_CanWrite(hasMeter, Writer) )
       => /\ ~IsLimitError(last'.out.err)
          /\ last'.op \in {"Read", "Write"} => StepHands(last'.req)
          /\ last'.op \in {"ReadFrom", "WriteTo"} =>
                last'.out.n = IoCopy(last'.src, last'.sink).n

C12_SetMaxCount == [][C12_SetterStep]_vars

\* SetMaxCountWrite set to Unlimited a write ceiling that the counter had
\* reached or passed, on a Limit with a writer.
C12_Witness ==
    /\ last.op = "SetMaxCountWrite"
    /\ Writer # NoEndpoint
    /\ last.w = Unlimited
    /\ last.was # Unlimited
    /\ wCount >= last.was
    /\ wMax = Unlimited

\* A drain (ReadFrom, WriteTo) of a Limit whose end is bound.
IsLimitDrain ==
    /\ kind = "Limit"
    /\ last.op \in {"ReadFrom", "WriteTo"}
    /\ Bound

\* A direct call (Read, Write) of a Limit whose end is bound.
IsLimitDirect ==
    /\ kind = "Limit"
    /\ last.op \in {"Read", "Write"}
    /\ Bound

\* C15: Limit.ReadFrom and Limit.WriteTo with a finite ceiling and remaining
\* capacity Rem > 0, a source that holds at least Rem bytes and a sink that
\* takes them: exactly Rem bytes are taken from the source and moved, the
\* call returns (Rem, nil), and the counter advances by Rem and equals the
\* ceiling.
C15_BoundedDrain ==
    ( /\ IsLimitDrain
      /\ Ceiling # Unlimited
      /\ Rem > 0
      /\ last.src.avail >= Rem
      /\ last.sink.room >= Rem )
    => /\ last.out.n = Rem
       /\ last.out.err = Nil
       /\ last.out.pulled = Rem
       /\ After = Before + Rem
       /\ After = Ceiling

\* A drain with 2 bytes of capacity left moved both bytes of its source.
C15_Witness ==
    /\ IsLimitDrain
    /\ Ceiling # Unlimited
    /\ Rem = 2
    /\ last.src.avail = 2
    /\ last.out.n = 2
    /\ last.out.err = Nil
    /\ After = Ceiling

\* C16: Limit.WriteTo and Limit.ReadFrom whose source ends (io.EOF) after
\* k bytes, all of which the sink takes: with a finite ceiling and remaining
\* capacity Rem > k the call returns (k, io.EOF) -- not nil, not a
\* LimitError -- and the counter advances by k; with the ceiling Unlimited
\* the same drain returns (k, nil).
C16_ShortDrain ==
    ( /\ IsLimitDrain
      /\ last.src.end = EOF
      /\ last.sink.room >= last.src.avail )
    => /\ ( /\ Ceiling # Unlimited
            /\ Rem > 0
            /\ last.src.avail < Rem )
          => /\ last.out.n = last.src.avail
             /\ last.out.err = EOF
             /\ After = Before + last.src.avail
       /\ Ceiling = Unlimited
          => /\ last.out.n = last.src.avail
             /\ last.out.err = Nil
             /\ After = Before + last.src.avail

\* A drain with 2 bytes of capacity left met a source of 1 byte and
\* returned (1, io.EOF).
C16_Witness ==
    /\ IsLimitDrain
    /\ Ceiling # Unlimited
    /\ Rem = 2
    /\ last.src = [avail |-> 1, end |-> EOF]
    /\ last.out.n = 1
    /\ last.out.err = EOF

\* C17: Limit.Read and Limit.Write with a finite ceiling, a buffer of
\* exactly the remaining capacity (> 0) and an endpoint that moves what it
\* is handed without error: the call returns (len(p), nil) and leaves the
\* counter equal to the ceiling; the same call made next with the same
\* buffer returns (0, LimitError{len(p), 0}), does not reach the endpoint
\* and leaves the counters unchanged.
ExactFit ==
    /\ IsLimitDirect
    /\ Ceiling # Unlimited
    /\ Rem > 0
    /\ last.req = Rem
    /\ last.out.called => EndpointFaultless

ExactFitFirst ==
    ExactFit =>
        /\ last.out.called
        /\ last.out.n = last.req
        /\ last.out.err = Nil
        /\ After = Ceiling

ExactFitSecond ==
    ( /\ ExactFit
      /\ last'.op = last.op
      /\ last'.req = last.req )
    => /\ StepRefused(DirLimitError(last.req, 0))
       /\ UNCHANGED <<rCount, wCount>>

C17_ExactFit == []ExactFitFirst /\ [][ExactFitSecond]_vars

\* A 1-byte request was refused with the counter at the ceiling of 1.
C17_Witness ==
    /\ IsLimitDirect
    /\ Ceiling = 1
    /\ Before = 1
    /\ last.req = 1
    /\ ~last.out.called
    /\ last.out.err = DirLimitError(1, 0)
    /\ After = 1

\* C18: the counter accessors.  A fresh object has both counters 0;
\* AddCountRead(r)/AddCountWrite(w) return the counter plus the amount
\* (which may be negative) and leave it in the counter;
\* SetCountRead/SetCountWrite store their argument; ResetCountRead/
\* ResetCountWrite store 0; CountRead/CountWrite return the counter; the
\* combined AddCount, SetCount, ResetCount and Count do to both counters
\* what the two per-direction calls do.  A get that follows an add, a set
\* or a reset returns the value that call left.
C18_AccessorStep ==
    /\ last'.op = "CountRead" =>
          /\ last'.r = rCount
          /\ UNCHANGED <<rCount, wCount>>
    /\ last'.op = "CountWrite" =>
          /\ last'.w = wCount
          /\ UNCHANGED <<rCount, wCount>>
    /\ last'.op = "Count" =>
          /\ last'.r = rCount
          /\ last'.w = wCount
          /\ UNCHANGED <<rCount, wCount>>
    /\ last'.op = "AddCountRead" =>
          /\ last'.nr = rCount + last'.r
          /\ rCount' = last'.nr
          /\ wCount' = wCount
    /\ last'.op = "AddCountWrite" =>
          /\ last'.nw = wCount + last'.w
          /\ wCount' = last'.nw
          /\ rCount' = rCount
    /\ last'.op = "AddCount" =>
          /\ last'.nr = rCount + last'.r
          /\ last'.nw = wCount + last'.w
          /\ rCount' = last'.nr
          /\ wCount' = last'.nw
    /\ last'.op = "SetCountRead" => rCount' = last'.r /\ wCount' = wCount
    /\ last'.op = "SetCountWrite" => wCount' = last'.w /\ rCount' = rCount
    /\ last'.op = "SetCount" => rCount' = last'.r /\ wCount' = last'.w
    /\ last'.op = "ResetCountRead" => rCount' = 0 /\ wCount' = wCount
    /\ last'.op = "ResetCountWrite" => wCount' = 0 /\ rCount' = rCount
    /\ last'.op = "ResetCount" => rCount' = 0 /\ wCount' = 0
    /\ last'.op \in {"CountRead", "Count"} =>
          /\ last.op \in {"AddCountRead", "AddCount"} => last'.r = last.nr
          /\ last.op \in {"SetCountRead", "SetCount"} => last'.r = last.r
          /\ last.op \in {"ResetCountRead", "ResetCount", "New"} => last'.r = 0
    /\ last'.op \in {"CountWrite", "Count"} =>
          /\ last.op \in {"AddCountWrite", "AddCount"} => last'.w = last.nw
          /\ last.op \in {"SetCountWrite", "SetCount"} => last'.w = last.w
          /\ last.op \in {"ResetCountWrite", "ResetCount", "New"} => last'.w = 0

C18_Accessors ==
    /\ [](last.op = "New" => rCount = 0 /\ wCount = 0)
    /\ [][C18_AccessorStep]_vars

\* On a Meter, AddCountRead(-1) took the read counter from 2 to 1 and
\* returned 1.
C18_Witness ==
    /\ kind = "Meter"
    /\ last.op = "AddCountRead"
    /\ last.r = -1
    /\ last.cr = 2
    /\ last.nr = 1
    /\ rCount = 1

\* C19 as stated: Limit.Read and Limit.Write with a finite ceiling and
\* len(p) <= remaining return exactly what the endpoint returns for p, a
\* short read with a nil error included; and a Read/Write returns a
\* LimitError only if the ceiling is finite and the counter >= the ceiling
\* or len(p) > remaining.
LimitErrorJustified ==
    ( /\ IsLimitDirect
      /\ IsLimitError(last.out.err) )
    => /\ Ceiling # Unlimited
       /\ Before >= Ceiling \/ last.req > Rem

EndpointResultReturned ==
    /\ last.out.n = EndpointIO(Buf(last.req), last.ep).n
    /\ last.out.err = EndpointIO(Buf(last.req), last.ep).err

C19_Original ==
    /\ ( /\ IsLimitDirect
         /\ Ceiling # Unlimited
         /\ last.req <= Rem )
       => EndpointResultReturned
    /\ LimitErrorJustified

\* C19 as amended: with a finite ceiling, the counter below it and
\* len(p) <= remaining, Read/Write reach the endpoint with the whole buffer
\* and return exactly what it returns; an empty buffer at remaining = 0 is
\* refused with LimitError{0, 0}; and a LimitError is returned only if the
\* ceiling is finite and the counter >= the ceiling or len(p) > remaining.
C19_NoSpuriousLimitError ==
    /\ ( /\ IsLimitDirect
         /\ Ceiling # Unlimited
         /\ Rem > 0
         /\ last.req <= Rem )
       => /\ last.out.called
          /\ last.out.handed = Buf(last.req)
          /\ EndpointResultReturned
          /\ After = Before + last.out.n
    /\ ( /\ IsLimitDirect
         /\ Ceiling # Unlimited
         /\ Rem = 0
         /\ last.req = 0 )
       => /\ ~last.out.called
          /\ last.out.err = DirLimitError(0, 0)
    /\ LimitErrorJustified

\* A 2-byte request within the remaining capacity on which the endpoint
\* moved 1 byte with no error returned (1, nil).
C19_Witness ==
    /\ IsLimitDirect
    /\ Ceiling # Unlimited
    /\ Rem >= 2
    /\ last.req = 2
    /\ last.out.epN = 1
    /\ last.out.epErr = Nil
    /\ last.out.n = 1
    /\ last.out.err = Nil

\* C20: Read and WriteTo change no variable but the read counter, Write and
\* ReadFrom none but the write counter; a per-direction counter call
\* changes only its counter and a per-direction ceiling setter only its
\* ceiling; no transfer changes a ceiling and no ceiling setter a counter.
\* A direction whose ceiling is used up does not touch the other one: a
\* call there that fits its own remaining capacity reaches the endpoint
\* with the whole request and returns no LimitError.
OtherSideExhausted ==
    /\ kind = "Limit"
    /\ \/ /\ StepWrites
          /\ Limit_CanWrite(hasMeter, Writer)
          /\ rMax # Unlimited /\ rCount >= rMax
          /\ wMax = Unlimited \/ (wMax - wCount > 0 /\ last'.req <= wMax - wCount)
       \/ /\ StepReads
          /\ Limit_CanRead(hasMeter, Reader)
          /\ wMax # Unlimited /\ wCount >= wMax
          /\ rMax = Unlimited \/ (rMax - rCount > 0 /\ last'.req <= rMax - rCount)

C20_FrameStep ==
    /\ last'.op \in {"Read", "WriteTo"} => UNCHANGED <<wCount, rMax, wMax>>
    /\ last'.op \in {"Write", "ReadFrom"} => UNCHANGED <<rCount, rMax, wMax>>
    /\ last'.op \in {"SetCountRead", "ResetCountRead", "AddCountRead"} =>
          UNCHANGED <<wCount, rMax, wMax>>
    /\ last'.op \in {"SetCountWrite", "ResetCountWrite", "AddCountWrite"} =>
          UNCHANGED <<rCount, rMax, wMax>>
    /\ last'.op \in {"SetCount", "ResetCount", "AddCount"} =>
          UNCHANGED <<rMax, wMax>>
    /\ last'.op = "SetMaxCountRead" => UNCHANGED <<rCount, wCount, wMax>>
    /\ last'.op = "SetMaxCountWrite" => UNCHANGED <<rCount, wCount, rMax>>
    /\ last'.op = "SetMaxCount" => UNCHANGED <<rCount, wCount>>
    /\ OtherSideExhausted =>
          /\ last'.out.called
          /\ ~IsLimitError(last'.out.err)
          /\ last'.out.n = last'.out.epN
          /\ last'.op \in {"Read", "Write"} =>
                last'.out.handed = Buf(last'.req)

C20_Frame == [][C20_FrameStep]_vars

\* With the read ceiling used up, a Write of 2 bytes went through whole.
C20_Witness ==
    /\ kind = "Limit"
    /\ last.op = "Write"
    /\ Reader # NoEndpoint
    /\ rMax # Unlimited
    /\ rCount >= rMax
    /\ wMax # Unlimited
    /\ last.req = 2
    /\ last.out.n = 2
    /\ last.out.err = Nil
    /\ rCount = last.cr

\* ---------------------------------------------------- concurrent callers

RECURSIVE SumOver(_, _)
SumOver(f, S) ==
    IF S = {} THEN 0
    ELSE LET c == CHOOSE x \in S : TRUE
         IN  f[c] + SumOver(f, S \ {c})

AllDone == \A c \in Callers : calls[c].pc = "done"

\* What the calls that have returned moved or added, per direction: the
\* byte count a transfer returned, the amount an AddCount call was given.
ReturnedRead ==
    SumOver([c \in Callers |->
                IF calls[c].pc = "done" /\ CallReads(c) THEN calls[c].n ELSE 0],
            Callers)

ReturnedWrite ==
    SumOver([c \in Callers |->
                IF calls[c].pc = "done" /\ ~CallReads(c) THEN calls[c].n ELSE 0],
            Callers)

\* C13: callers running transfers and AddCount calls concurrently on one
\* Meter or Limit, with no Set or Reset call: under every interleaving each
\* counter is its initial value, 0, plus the byte counts returned and the
\* amounts added by the calls of its direction that have returned -- when
\* all have returned, the sum over all calls.  No increment is lost.
C13_NoLostUpdate ==
    /\ rCount = ReturnedRead
    /\ wCount = ReturnedWrite

\* Two callers wrote 1 byte each through a Limit with a write ceiling of 2;
\* both loaded the remaining capacity before either added to the counter,
\* and the counter holds both bytes.
C13_Witness ==
    /\ AllDone
    /\ kind = "Limit"
    /\ wMax = 2
    /\ \A c \in Callers :
          /\ calls[c].op \in {"Write", "ReadFrom"}
          /\ calls[c].rem = 2
          /\ calls[c].n = 1
    /\ wCount = 2

\* The transfers of callers c and d, in one direction of a Limit with a
\* finite ceiling, both loaded their remaining capacity before the other
\* added its bytes to the counter.
BothCheckedFirst(c, d) ==
    /\ calls[d].rem > CallMax(c) - calls[c].n
    /\ calls[c].rem > CallMax(d) - calls[d].n

Overshoot(side) ==
    LET count == IF side = "read" THEN rCount ELSE wCount
        max == IF side = "read" THEN rMax ELSE wMax
        mine == {c \in Callers : CallIsTransfer(c) /\ CallReads(c) = (side = "read")}
    IN  ( /\ kind = "Limit"
          /\ AllDone
          /\ max # Unlimited
          /\ mine = Callers
          /\ count > max )
        => \A c \in Callers, d \in Callers : c # d => BothCheckedFirst(c, d)

\* C14: on a Limit with a finite ceiling used by concurrent callers, every
\* transfer moves no more than the remaining capacity it loaded, and yet
\* the counter can end above the ceiling: it does so, when all the calls
\* are transfers in that direction, only when every two of them loaded
\* their remaining capacity before the other updated the counter.
C14_RaceOvershoot ==
    /\ \A c \in Callers :
          ( /\ kind = "Limit"
            /\ CallIsTransfer(c)
            /\ calls[c].pc \in {"add", "done"}
            /\ CallMax(c) # Unlimited )
          => calls[c].n <= (IF calls[c].rem > 0 THEN calls[c].rem ELSE 0)
    /\ Overshoot("read")
    /\ Overshoot("write")

\* Two callers, a write ceiling of 1: both found 1 byte of capacity, both
\* wrote 1 byte, and the write counter ended at 2.
C14_Witness ==
    /\ AllDone
    /\ kind = "Limit"
    /\ wMax = 1
    /\ \A c \in Callers :
          /\ calls[c].op \in {"Write", "ReadFrom"}
          /\ calls[c].rem = 1
          /\ calls[c].n = 1
    /\ wCount = 2
    /\ wCount > wMax

\* ------------------------------------------------------------------- Close

\* A transfer step whose end is bound and whose ceiling leaves capacity (or
\* is Unlimited, or the object is a Meter).
StepHasCapacity ==
    \/ /\ StepReads
       /\ Limit_CanRead(hasMeter, Reader)
       /\ kind = "Meter" \/ rMax = Unlimited
             \/ Limit_RemainingCountRead(rMax, rCount) > 0
    \/ /\ StepWrites
       /\ Limit_CanWrite(hasMeter, Writer)
       /\ kind = "Meter" \/ wMax = Unlimited
             \/ Limit_RemainingCountWrite(wMax, wCount) > 0

\* C21: Close changes no counter, no ceiling and no binding, and leaves no
\* closed state: the counter and ceiling getters return after it what they
\* returned before it, a call made after a Close -- another Close included --
\* does what it does on the object that was never closed: a transfer whose
\* end is bound and has capacity still reaches the endpoint, a getter still
\* returns the counter, and every Close invokes Close again on every bound
\* closer.
C21_CloseStep ==
    /\ last'.op = "Close" =>
          /\ Meter_CountRead(rCount') = Meter_CountRead(rCount)
          /\ Meter_CountWrite(wCount') = Meter_CountWrite(wCount)
          /\ Limit_MaxCountRead(rMax') = Limit_MaxCountRead(rMax)
          /\ Limit_MaxCountWrite(wMax') = Limit_MaxCountWrite(wMax)
          /\ Limit_CanRead(hasMeter', Reader') = Limit_CanRead(hasMeter, Reader)
          /\ Limit_CanWrite(hasMeter', Writer') = Limit_CanWrite(hasMeter, Writer)
          /\ last'.closed = SelectSeq(<<Reader, Writer>>, IsCloser)
    /\ last.op = "Close" =>
          /\ last'.op = "Close" =>
                /\ last'.closed = last.closed
                /\ Len(last'.closed) =
                      Cardinality({i \in 1..2 : IsCloser(<<Reader, Writer>>[i])})
          /\ (IsTransfer' /\ StepHasCapacity) =>
                /\ last'.out.called
                /\ last'.out.err # ErrClosedPipe
                /\ last'.out.n = last'.out.epN
          /\ last'.op \in {"CountRead", "Count"} => last'.r = rCount
          /\ last'.op \in {"CountWrite", "Count"} => last'.w = wCount

C21_CloseKeepsState == [][C21_CloseStep]_vars

\* A Limit with counters above 0 and finite ceilings was closed, and both
\* of its bindings had their Close invoked.
C21_Witness ==
    /\ last.op = "Close"
    /\ kind = "Limit"
    /\ Len(last.closed) = 2
    /\ rCount > 0
    /\ wCount > 0
    /\ rMax # Unlimited
    /\ wMax # Unlimited

\* ---------------------------------------------------------------- bindings

\* What the constructors bind, read off the object they return.
C22_Constructed ==
    last.op = "New" =>
        /\ ( \/ \E r \in Endpoints : NewReadMeter(r)
             \/ \E r \in Endpoints, rm \in MaxVals : NewReadLimit(r, rm) )
           => Limit_CanRead(hasMeter, Reader) /\ ~Limit_CanWrite(hasMeter, Writer)
        /\ ( \/ \E w \in Endpoints : NewWriteMeter(w)
             \/ \E w \in Endpoints, wm \in MaxVals : NewWriteLimit(w, wm) )
           => ~Limit_CanRead(hasMeter, Reader) /\ Limit_CanWrite(hasMeter, Writer)
        /\ ( \/ \E rw \in Endpoints : NewReadWriteMeter(rw)
             \/ \E rw \in Endpoints, rm \in MaxVals, wm \in MaxVals :
                   NewReadWriteLimit(rw, rm, wm) )
           => Limit_CanRead(hasMeter, Reader) /\ Limit_CanWrite(hasMeter, Writer)
        /\ kind = "Meter" =>
              /\ Meter_CanRead(Reader) <=> \E b \in MeterBindings :
                    b[1] # NoEndpoint /\ NewMeter(b[1], b[2])
              /\ Meter_CanWrite(Writer) <=> \E b \in MeterBindings :
                    b[2] # NoEndpoint /\ NewMeter(b[1], b[2])

\* No call rebinds an end or changes what CanRead and CanWrite return.
C22_BindingsStep ==
    /\ Reader' = Reader
    /\ Writer' = Writer
    /\ hasMeter' = hasMeter
    /\ Limit_CanRead(hasMeter', Reader') = Limit_CanRead(hasMeter, Reader)
    /\ Limit_CanWrite(hasMeter', Writer') = Limit_CanWrite(hasMeter, Writer)
    /\ Meter_CanRead(Reader') = Meter_CanRead(Reader)
    /\ Meter_CanWrite(Writer') = Meter_CanWrite(Writer)

\* C22: the bindings are fixed at construction.  The object a constructor
\* returns can read exactly when a readable end was supplied and can write
\* exactly when a writable end was supplied (NewReadMeter/NewReadLimit: read
\* only; NewWriteMeter/NewWriteLimit: write only; NewReadWrite*: both), and
\* no call -- transfer, counter or ceiling accessor, Close -- changes a
\* binding, so CanRead() and CanWrite() return the same value in every
\* reachable state.
C22_FixedBindings == []C22_Constructed /\ [][C22_BindingsStep]_vars

\* A Limit built with a reader only, after reads that moved bytes and an
\* error from a drain, turned a Write away with io.ErrClosedPipe and still
\* has its reader.
C22_Witness ==
    /\ kind = "Limit"
    /\ Reader = "plain"
    /\ Writer = NoEndpoint
    /\ rCount > 0
    /\ last.op = "Write"
    /\ last.req > 0
    /\ last.out.err = ErrClosedPipe
    /\ Limit_CanRead(hasMeter, Reader)
    /\ ~Limit_CanWrite(hasMeter, Writer)

\* ------------------------------------------------- a Limit drained into itself

\* io.Copy(limit, limit) with finite ceilings R <= W, both counters 0, a
\* readable endpoint that holds at least R bytes and a writable endpoint
\* that takes them.
SelfDrain ==
    /\ kind = "Limit"
    /\ last.op = "Copy"
    /\ rMax # Unlimited
    /\ wMax # Unlimited
    /\ rMax <= wMax
    /\ last.cr = 0
    /\ last.cw = 0
    /\ last.src.avail >= rMax
    /\ last.sink.room >= rMax

\* The copy returned (R, nil), R bytes reached the writable endpoint and
\* both counters are R.
SelfDrainMovedR ==
    /\ last.out.n = rMax
    /\ last.out.err = Nil
    /\ last.out.epN = rMax
    /\ rCount = rMax
    /\ wCount = rMax

\* C23 as stated: a Limit drained into itself, read ceiling R <= write
\* ceiling W, both counters 0, at least R bytes to read: the copy returns
\* (R, nil), exactly R bytes reach the writable endpoint and both counters
\* equal R.
C23_Original == SelfDrain => SelfDrainMovedR

\* C23 as amended: the same with 0 < R <= W; the io.EOF the nested drain
\* returns when R < W is not returned by the copy.
C23_SelfDrain ==
    (SelfDrain /\ rMax > 0) =>
        /\ SelfDrainMovedR
        /\ last.out.pulled = rMax
        /\ rMax < wMax => last.out.epErr = EOF

\* Ceilings 1 and 2: the nested drain returned (1, io.EOF) and the copy
\* (1, nil).
C23_Witness ==
    /\ SelfDrain
    /\ rMax = 1
    /\ wMax = 2
    /\ last.src.avail = 2
    /\ last.out.epErr = EOF
    /\ last.out.n = 1
    /\ last.out.err = Nil
    /\ rCount = 1
    /\ wCount = 1

\* ------------------------------------------------------------ LimitError

\* The LimitError the caller keeps.
HeldError == Cause(calls[Holder].err)

\* What rendering the error kept returns, with the ceilings as they are.
RenderedAgainstLiveState ==
    last.op = "Error" =>
        IF HeldError.op \in {IO_Read, IO_ReadWrite}
        THEN last.text = [text |-> "short", op |-> HeldError.op,
                          Accepted |-> HeldError.Accepted,
                          Requested |-> HeldError.Requested, limit |-> rMax]
        ELSE IF HeldError.op = IO_Write
        THEN last.text = [text |-> "short", op |-> IO_Write,
                          Accepted |-> HeldError.Accepted,
                          Requested |-> HeldError.Requested, limit |-> wMax]
        ELSE /\ HeldError.op \in {IO_NOP, IO_Close}
             /\ last.text = InvalidOperationText

\* Only building an error changes the error the caller keeps.
HeldErrorStep ==
    last'.op \notin {"MakeLimitError", "LimitError{}"} =>
        calls'[Holder] = calls[Holder]

\* C24: a LimitError keeps the kind, the requested and the accepted count it
\* was built with -- no ceiling setter and no rendering changes them --
\* and is rendered against the owner as it is then: with the read ceiling
\* when the kind includes read, else with the write ceiling when it
\* includes write, else (LimitError{}, kind close) as the invalid-operation
\* message, with no use of the owner; the ceiling shown is the one in force
\* when the error is rendered, whatever it was when the error was built.
C24_LimitErrorRendering == []RenderedAgainstLiveState /\ [][HeldErrorStep]_vars

\* A read LimitError built under a read ceiling of 2 was rendered after the
\* ceiling was set to 1, and shows 1.
C24_Witness ==
    /\ last.op = "Error"
    /\ HeldError.op = IO_Read
    /\ HeldError.Requested = 2
    /\ HeldError.Accepted = 1
    /\ calls[Holder].rm = 2
    /\ rMax = 1
    /\ last.text.text = "short"
    /\ last.text.limit = 1

\* ------------------------------------------------------- causal equivalence

\* C25: an error returned by a transfer of the Limit matches (errors.Is) an
\* error built by MakeReadLimitError/MakeWriteLimitError exactly when the
\* error returned is a LimitError and the two have the same owner, the same
\* kind, the same requested and the same accepted count; when each was made
\* and what the target wraps make no difference.
C25_CausalEquivalence ==
    last.op = "Is" =>
        ( last.is <=>
            /\ IsLimitError(last.err)
            /\ last.target.cause.Limit = last.err.cause.Limit
            /\ last.target.cause.op = last.err.cause.op
            /\ last.target.cause.Requested = last.err.cause.Requested
            /\ last.target.cause.Accepted = last.err.cause.Accepted )

\* The LimitError{2, 1} of a cut Read matched an error built at another
\* time that wraps a chain.
C25_Witness ==
    /\ last.op = "Is"
    /\ last.is
    /\ last.err = MakeReadLimitError(2, 1)
    /\ last.target.when # last.err.when
    /\ last.target.wrap # <<>>
    /\ last.target.cause = last.err.cause

\* ------------------------------------------------- the accepted count

\* C26 as stated: whenever Limit.Read or Limit.Write returns a LimitError,
\* the error's Accepted is the byte count the call returned, which is also
\* the advance of the counter -- whatever the endpoint did, an endpoint that
\* moved fewer bytes than it was handed and reported no error included.
C26_Original ==
    ( /\ IsLimitDirect
      /\ IsLimitError(last.out.err) )
    => /\ last.out.err.cause.Accepted = last.out.n
       /\ After = Before + last.out.n

\* ------------------------------------------------------- racing with setters

\* C27 as stated: under every interleaving of a Read or a Write with
\* concurrent stores of ceilings and counters and with other transfers, the
\* buffer is never cut at a negative or out-of-range bound: the call never
\* panics.
C27_Original ==
    \A c \in Callers :
        /\ calls[c].pc # "panic"
        /\ (calls[c].pc \in {"io", "add", "done"} /\ calls[c].e # Nil)
              => calls[c].rem \in 0..calls[c].req

\* ------------------------------------------------- one object as both ends

\* C28 as stated: one Close() call invokes the Close of each distinct bound
\* endpoint at most once, also when one closer is bound as both the
\* readable and the writable end.
C28_Original ==
    last.op = "Close" =>
        \A e \in Closers :
            Cardinality({i \in 1..Len(last.closed) : last.closed[i] = e}) <= 1

\* ------------------------------------------------ what a drain consumes

\* C29: Limit.ReadFrom with a finite write ceiling and Limit.WriteTo with a
\* finite read ceiling take from the source (the readable endpoint) at most
\* the remaining capacity, whatever the outcome -- all moved, the sink
\* short or in error, the source short; with remaining capacity <= 0 they
\* take nothing and do not reach the source.
C29_NoOverConsumption ==
    ( /\ IsLimitDrain
      /\ Ceiling # Unlimited )
    => /\ last.out.pulled <= (IF Rem > 0 THEN Rem ELSE 0)
       /\ last.out.pulled <= last.src.avail
       /\ last.out.n <= last.out.pulled
       /\ Rem <= 0 => (last.out.pulled = 0 /\ ~last.out.called)

\* With 1 byte of capacity left, a source of 2 bytes and a sink that took
\* nothing, the drain took 1 byte from the source and moved none.
C29_Witness ==
    /\ IsLimitDrain
    /\ Ceiling # Unlimited
    /\ Rem = 1
    /\ last.src.avail = 2
    /\ last.sink.room = 0
    /\ last.out.pulled = 1
    /\ last.out.n = 0

\* ------------------------------------------------------------- termination

\* A drain that went the way of io.Copy (a Meter, or the ceiling Unlimited)
\* has left the loop only on an error or the end of the source, or on a
\* sink that was short or in error.
UnboundedDrainEnded ==
    LET call == calls[Holder]
    IN  ( /\ call.pc \in {"add", "done"}
          /\ ~call.limited
          /\ call.err # ErrClosedPipe
          /\ ~IsLimitError(call.err) )
        => \/ call.rd.err # Nil
           \/ call.wr.err # Nil
           \/ call.wr.k < call.rd.k

\* A limited drain writes no more than the n of its io.CopyN, and leaves
\* the loop within n turns.
BoundedDrainProgress ==
    LET call == calls[Holder]
    IN  call.limited =>
            /\ call.written <= call.rem
            /\ call.N >= 0
            /\ call.pc = "copy" => call.written + call.N = call.rem

\* C30: under a finite ceiling Limit.ReadFrom and Limit.WriteTo return,
\* also when the source never reports its end, provided every call of the
\* source returns with at least one byte or an error; Meter.ReadFrom/WriteTo
\* and the Unlimited path return only when the source ends or an error
\* occurs.
C30_BoundedDrainReturns ==
    /\ []UnboundedDrainEnded
    /\ []BoundedDrainProgress
    /\ (calls[Holder].pc = "copy" /\ calls[Holder].limited)
           ~> (calls[Holder].pc = "done")

\* A drain under a ceiling of 2 returned after 2 bytes from a source that
\* reported no end and no error.
C30_Witness ==
    /\ kind = "Limit"
    /\ calls[Holder].pc = "done"
    /\ calls[Holder].limited
    /\ calls[Holder].rem = 2
    /\ calls[Holder].written = 2
    /\ calls[Holder].wr = NoAnswer
    /\ calls[Holder].rd = [k |-> 0, err |-> EOF]
    /\ calls[Holder].err = Nil

\* ------------------------------------------------------ remaining capacity

\* The call before this step asked for the remaining capacity of the read
\* (write) side: last.r (last.w) is what it returned.
AskedRead == last.op \in {"RemainingCountRead", "RemainingCount"}

AskedWrite == last.op \in {"RemainingCountWrite", "RemainingCount"}

\* A step that asks for the remaining capacity returns the ceiling minus the
\* counter and changes neither.
RemainingReportStep ==
    /\ last'.op \in {"RemainingCountRead", "RemainingCount"} =>
          last'.r = Limit_MaxCountRead(rMax) - Meter_CountRead(rCount)
    /\ last'.op \in {"RemainingCountWrite", "RemainingCount"} =>
          last'.w = Limit_MaxCountWrite(wMax) - Meter_CountWrite(wCount)
    /\ last'.op \in {"RemainingCountRead", "RemainingCountWrite",
                     "RemainingCount"} =>
          UNCHANGED <<rCount, wCount, rMax, wMax>>

\* The transfer of this step returned 0 bytes and a LimitError.
StepZeroAndLimitError ==
    /\ last'.out.n = 0
    /\ IsLimitError(last'.out.err)

\* The transfer of this step was refused: it returned 0 bytes and a
\* LimitError that accepted 0, and did not reach the endpoint.
StepRejected ==
    /\ StepZeroAndLimitError
    /\ Cause(last'.out.err).Accepted = 0
    /\ ~last'.out.called
    /\ UNCHANGED <<rCount, wCount>>

\* C31 as stated: RemainingCountRead/RemainingCountWrite return ceiling -
\* counter, and whatever the ceiling (Unlimited included) and the counter,
\* the remaining capacity reported is <= 0 exactly when the next transfer of
\* that direction, on a bound endpoint, returns 0 bytes and a LimitError.
C31_OriginalStep ==
    /\ RemainingReportStep
    /\ (AskedRead /\ StepReads /\ Limit_CanRead(hasMeter, Reader)) =>
          ((last.r <= 0) <=> StepZeroAndLimitError)
    /\ (AskedWrite /\ StepWrites /\ Limit_CanWrite(hasMeter, Writer)) =>
          ((last.w <= 0) <=> StepZeroAndLimitError)

C31_Original == [][C31_OriginalStep]_vars

\* C31, amended: RemainingCountRead/RemainingCountWrite return ceiling -
\* counter; under a finite ceiling the remaining capacity reported is <= 0
\* exactly when the next transfer of that direction, on a bound endpoint, is
\* refused with 0 bytes and a LimitError that accepted 0, the endpoint not
\* reached; under the ceiling Unlimited the remaining capacity reported is
\* -1 - counter, below 0 for every counter >= 0, and the next transfer is
\* not refused: it reaches the endpoint and returns no LimitError.
C31_RemainingStep ==
    /\ RemainingReportStep
    /\ (AskedRead /\ StepReads /\ Limit_CanRead(hasMeter, Reader)) =>
          /\ rMax # Unlimited => ((last.r <= 0) <=> StepRejected)
          /\ rMax = Unlimited =>
                /\ last.r = Unlimited - rCount
                /\ last.r < 0
                /\ last'.out.called
                /\ ~IsLimitError(last'.out.err)
    /\ (AskedWrite /\ StepWrites /\ Limit_CanWrite(hasMeter, Writer)) =>
          /\ wMax # Unlimited => ((last.w <= 0) <=> StepRejected)
          /\ wMax = Unlimited =>
                /\ last.w = Unlimited - wCount
                /\ last.w < 0
                /\ last'.out.called
                /\ ~IsLimitError(last'.out.err)

C31_RemainingAgrees == [][C31_RemainingStep]_vars

\* The read ceiling was lowered to 1 below a read counter of 2 (remaining
\* capacity -1), and a Read of 1 byte was refused with
\* (0, LimitError{1, 0}), the endpoint not reached.
C31_Witness ==
    /\ kind = "Limit"
    /\ last.op = "Read"
    /\ rMax = 1
    /\ last.cr = 2
    /\ Limit_RemainingCountRead(rMax, last.cr) = -1
    /\ last.req = 1
    /\ ~last.out.called
    /\ last.out.n = 0
    /\ last.out.err = MakeReadLimitError(1, 0)
    /\ rCount = 2

\* ------------------------------------------- what a drain to a sink counts

\* C32: Meter.WriteTo and Limit.WriteTo add to the read counter the number
\* of bytes they took from the readable endpoint during the call, also when
\* the sink reports an error or takes fewer bytes than it is handed: no
\* byte leaves the readable endpoint uncounted.
C32_Original ==
    ( /\ last.op = "WriteTo"
      /\ last.out.called )
    => /\ last.out.add = last.out.pulled
       /\ rCount = last.cr + last.out.pulled

====
